---------------------------- MODULE Spec2Model ----------------------------
(***************************************************************************)
(* Verification model of the WG-Go per-peer session limiter:               *)
(*   src/src/modules/PeerLimits.py        settings and SessionTracker      *)
(*   src/src/modules/PeerLimiterState.py  PeerLimiterStateRepository       *)
(*   src/src/peer_limiter_daemon.py       firewall backends, daemon loop   *)
(*                                                                         *)
(* Conventions.                                                            *)
(*   Optional[T]   : << >> is None, <<v>> is the value v.                  *)
(*   str           : a sequence of one-character strings.                  *)
(*   datetime      : whole seconds on the tick clock (an integer).         *)
(*   dict          : a sequence of entries in insertion order (Python      *)
(*                   dicts iterate in insertion order, and the stable      *)
(*                   sorts of the tracker depend on it).                   *)
(***************************************************************************)
EXTENDS Integers, Sequences, FiniteSets, TLC

VARIABLES
    sessions,   \* SessionTracker._sessions : key -> insertion-ordered sessions
    now,        \* the clock read by the caller (datetime.now) for this tick
    call,       \* inputs and locals of the last SessionTracker.observe call
    backend,    \* the FirewallBackend object: kind, initialized, current sets
    kernel,     \* the host firewall the backend's commands act on
    commands,   \* the commands the last sync call ran, in order
    lastPlans,  \* the plans of the last sync call (None: no sync, or teardown since)
    repeated,   \* the last sync call was given the plans of the call before it
    rows,       \* the committed rows of table PeerLimiterSessions
    txn,        \* the open transaction of upsert_sessions, or None
    lastUpsert, \* the last upsert_sessions call that ended, and how
    lastRead,   \* what the last SELECT of another connection returned
    pc,         \* where PeerLimiterDaemon is: asleep, or inside iteration()
    todo,       \* iteration: the interfaces and peers of the dump still to process
    ifacePlan,  \* iteration: `plan`, the FirewallSyncPlan of the interface in progress
    tickPlans,  \* iteration: `plans`, the dict as <<interface, plan>> in insertion order
    decisions,  \* iteration: per peer, the active and allowed endpoints and the records passed on
    running,    \* PeerLimiterDaemon._running
    failure,    \* the exception that ended the last iteration, or None since a collect() that returned
    stdout,     \* the lines `wg show all dump` printed for this iteration's collect(), or None
    store,      \* the settings row of each peer in the interface tables, or None
    row,        \* the settings row handed to PeerLimitSettings.from_row
    built,      \* what from_row did with it: nothing yet, a settings value, or a raise
    endpointArg, \* the endpoint string handed to split_endpoint
    split       \* what split_endpoint did with it: nothing yet, or its return value

trackerVars == <<sessions, now, call>>
backendVars == <<backend, kernel, commands, lastPlans, repeated>>
repoVars == <<rows, txn, lastUpsert, lastRead>>
runVars == <<running, failure, stdout, store>>
daemonVars == <<pc, todo, ifacePlan, tickPlans, decisions, runVars>>
settingsVars == <<row, built, endpointArg, split>>
vars == <<trackerVars, backendVars, repoVars, daemonVars, settingsVars>>

-----------------------------------------------------------------------------
(* Bounds of the model.                                                    *)

MaxTime == 3
MaxBytes == 1
MaxHandshake == 2
MaxTtl == 2
MaxGrace == 3
MaxLimit == 1
MaxColumn == 2

-----------------------------------------------------------------------------
(* Python helpers.                                                         *)

None == << >>
Some(v) == <<v>>

Max(a, b) == IF a >= b THEN a ELSE b

Range(s) == {s[i] : i \in 1..Len(s)}

\* str.strip(): drop leading and trailing whitespace.
Whitespace == {" ", "\t"}

RECURSIVE LStrip(_)
LStrip(s) ==
    IF s # << >> /\ Head(s) \in Whitespace THEN LStrip(Tail(s)) ELSE s

RECURSIVE RStrip(_)
RStrip(s) ==
    IF s # << >> /\ s[Len(s)] \in Whitespace
    THEN RStrip(SubSeq(s, 1, Len(s) - 1))
    ELSE s

Strip(s) == RStrip(LStrip(s))

\* str.lower() on the letters that occur in the modelled endpoints.
LowerChar(c) ==
    CASE c = "N" -> "n"
      [] c = "O" -> "o"
      [] c = "E" -> "e"
      [] OTHER -> c

Lower(s) == [i \in 1..Len(s) |-> LowerChar(s[i])]

NoneLiteral == <<"(", "n", "o", "n", "e", ")">>

\* list.sort / sorted with a key: a stable sort (items with equal keys keep
\* their order) of <<key, item>> pairs by ascending key.  reverse=True is
\* the stable sort on the negated key.
RECURSIVE InsertByKey(_, _)
InsertByKey(x, sorted) ==
    IF sorted = << >> THEN <<x>>
    ELSE IF x[1] < Head(sorted)[1] THEN <<x>> \o sorted
    ELSE <<Head(sorted)>> \o InsertByKey(x, Tail(sorted))

RECURSIVE SortPairs(_)
SortPairs(s) ==
    IF s = << >> THEN << >>
    ELSE InsertByKey(s[Len(s)], SortPairs(SubSeq(s, 1, Len(s) - 1)))

Items(pairs) == [i \in 1..Len(pairs) |-> pairs[i][2]]

-----------------------------------------------------------------------------
(* modules/PeerLimits.py : settings.                                       *)

NEW_WINS == "new_wins"
OLD_WINS == "old_wins"

DEFAULT_TTL_SECONDS == 180
DEFAULT_GRACE_SECONDS == 5

\* The settings values the tracker is exercised with: every value that
\* PeerLimitSettings.from_row can produce within the bounds (ttl >= 1,
\* grace >= 0, max_concurrent None or >= 1).
SettingsSet ==
    [max_concurrent : {None} \cup {Some(m) : m \in 1..MaxLimit},
     policy         : {NEW_WINS, OLD_WINS},
     ttl_seconds    : 1..MaxTtl,
     grace_seconds  : 0..MaxGrace]

\* The dataclass constructor.
PeerLimitSettings(max_concurrent, policy, ttl_seconds, grace_seconds) ==
    [max_concurrent |-> max_concurrent, policy |-> policy,
     ttl_seconds |-> ttl_seconds, grace_seconds |-> grace_seconds]

\* The unlimited test written as `is None` (a limit of 0 is then a limit).
UnlimitedNoneOnly(settings) == settings.max_concurrent = None

\* settings.max_concurrent in (None, 0)
Unlimited(settings) ==
    settings.max_concurrent = None \/ settings.max_concurrent = Some(0)

-----------------------------------------------------------------------------
(* modules/PeerLimits.py : SessionTracker.                                 *)

PeerSession(endpoint, first_seen, last_seen, last_handshake, rx, tx, rxd, txd) ==
    [endpoint |-> endpoint, first_seen |-> first_seen, last_seen |-> last_seen,
     last_handshake |-> last_handshake, rx_bytes |-> rx, tx_bytes |-> tx,
     rx_delta |-> rxd, tx_delta |-> txd]

\* sessions.get(endpoint): the entry of an insertion-ordered dict, or None.
DictGet(ss, endpoint) ==
    IF \E i \in 1..Len(ss) : ss[i].endpoint = endpoint
    THEN Some(ss[CHOOSE i \in 1..Len(ss) : ss[i].endpoint = endpoint])
    ELSE None

\* sessions[endpoint] = session: replaces in place, or appends a new entry.
DictPut(ss, session) ==
    IF \E i \in 1..Len(ss) : ss[i].endpoint = session.endpoint
    THEN [i \in 1..Len(ss) |->
            IF ss[i].endpoint = session.endpoint THEN session ELSE ss[i]]
    ELSE Append(ss, session)

\* The expiry test one second late (a session one second past the TTL
\* window survives _expire).
StaleAtLate(session, ttl_seconds, t) == session.last_seen < t - Max(ttl_seconds, 1) - 1

\* _expire: the sessions of a key that survive (last_seen < expiry is stale).
StaleAt(session, ttl_seconds, t) == session.last_seen < t - Max(ttl_seconds, 1)

Expire(ss, ttl_seconds, t) ==
    SelectSeq(ss, LAMBDA s : ~StaleAt(s, ttl_seconds, t))

\* endpoint = (endpoint or "").strip()
NormalizeEndpoint(raw) == Strip(IF raw = None THEN << >> ELSE raw[1])

\* The test without .lower(): only the lower-case literal is rejected.
EndpointAcceptedCaseSensitive(endpoint) == endpoint # << >> /\ endpoint # NoneLiteral

\* if endpoint and endpoint.lower() != "(none)"
EndpointAccepted(endpoint) == endpoint # << >> /\ Lower(endpoint) # NoneLiteral

\* datetime.fromtimestamp(latest_handshake) if latest_handshake else None
HandshakeDt(latest_handshake) ==
    IF latest_handshake # 0 THEN Some(latest_handshake) ELSE None

\* The delta without the clamp at 0.
RawDelta(new, old) == new - old

ClampDelta(new, old) == Max(0, new - old)

\* The update branch with last_seen advanced on every observation.
UpdateExistingRefresh(existing, handshake_dt, rx, tx, t) ==
    [endpoint |-> existing.endpoint, first_seen |-> existing.first_seen,
     last_seen |-> t,
     last_handshake |->
         IF handshake_dt # None
            /\ (existing.last_handshake = None
                \/ handshake_dt[1] > existing.last_handshake[1])
         THEN handshake_dt ELSE existing.last_handshake,
     rx_bytes |-> rx, tx_bytes |-> tx,
     rx_delta |-> ClampDelta(rx, existing.rx_bytes),
     tx_delta |-> ClampDelta(tx, existing.tx_bytes)]

\* The update branch taking every reported handshake, also an earlier one.
UpdateExistingLatestHandshake(existing, handshake_dt, rx, tx, t) ==
    [endpoint |-> existing.endpoint, first_seen |-> existing.first_seen,
     last_seen |->
         IF ClampDelta(rx, existing.rx_bytes) # 0
            \/ ClampDelta(tx, existing.tx_bytes) # 0
         THEN t ELSE existing.last_seen,
     last_handshake |->
         IF handshake_dt # None THEN handshake_dt ELSE existing.last_handshake,
     rx_bytes |-> rx, tx_bytes |-> tx,
     rx_delta |-> ClampDelta(rx, existing.rx_bytes),
     tx_delta |-> ClampDelta(tx, existing.tx_bytes)]

\* The branch of observe that updates an existing session.
UpdateExisting(existing, handshake_dt, rx, tx, t) ==
    LET rx_delta == ClampDelta(rx, existing.rx_bytes)
        tx_delta == ClampDelta(tx, existing.tx_bytes)
        last_seen == IF rx_delta # 0 \/ tx_delta # 0 THEN t ELSE existing.last_seen
        last_handshake ==
            IF handshake_dt # None
               /\ (existing.last_handshake = None
                   \/ handshake_dt[1] > existing.last_handshake[1])
            THEN handshake_dt
            ELSE existing.last_handshake
    IN  PeerSession(existing.endpoint, existing.first_seen, last_seen,
                    last_handshake, rx, tx, rx_delta, tx_delta)

\* A created session whose deltas are the counters it was created with.
NewSessionCountingBytes(endpoint, handshake_dt, rx, tx, t) ==
    PeerSession(endpoint, t, t, handshake_dt, rx, tx, rx, tx)

\* The branch of observe that creates a session.
NewSession(endpoint, handshake_dt, rx, tx, t) ==
    PeerSession(endpoint, t, t, handshake_dt, rx, tx, 0, 0)

\* observe: the sessions of the key after the call.
ObserveSessions(ss, raw, latest_handshake, rx, tx, settings, t) ==
    LET kept == Expire(ss, settings.ttl_seconds, t)
        endpoint == NormalizeEndpoint(raw)
        existing == DictGet(kept, endpoint)
        handshake_dt == HandshakeDt(latest_handshake)
    IN  IF EndpointAccepted(endpoint)
        THEN IF existing # None
             THEN DictPut(kept, UpdateExisting(existing[1], handshake_dt, rx, tx, t))
             ELSE DictPut(kept, NewSession(endpoint, handshake_dt, rx, tx, t))
        ELSE kept

\* list.sort(key=lambda s: s.last_seen, reverse=True)
SortByLastSeenDesc(ss) ==
    Items(SortPairs([i \in 1..Len(ss) |-> <<0 - ss[i].last_seen, ss[i]>>]))

\* sorted(stable_sessions, key=lambda s: s.first_seen)
SortByFirstSeen(ss) ==
    Items(SortPairs([i \in 1..Len(ss) |-> <<ss[i].first_seen, ss[i]>>]))

\* active_sessions with the window test written as > (a session whose
\* last_seen lies exactly on the TTL boundary is dropped).
ActiveSessionsStrict(ss, settings, t) ==
    LET ttl_window == t - Max(settings.ttl_seconds, 1)
        active == SelectSeq(ss, LAMBDA s : s.last_seen > ttl_window)
    IN  SortByLastSeenDesc(active)

\* active_sessions
ActiveSessions(ss, settings, t) ==
    LET ttl_window == t - Max(settings.ttl_seconds, 1)
        active == SelectSeq(ss, LAMBDA s : s.last_seen >= ttl_window)
    IN  SortByLastSeenDesc(active)

\* append_unique(items) on the running (allowed, seen) pair.
RECURSIVE AppendUnique(_, _)
AppendUnique(allowed, items) ==
    IF items = << >> THEN allowed
    ELSE IF \E i \in 1..Len(allowed) : allowed[i].endpoint = Head(items).endpoint
         THEN AppendUnique(allowed, Tail(items))
         ELSE AppendUnique(Append(allowed, Head(items)), Tail(items))

\* ordered[:remaining]
Prefix(s, n) == SubSeq(s, 1, IF n < Len(s) THEN n ELSE Len(s))

\* The grace test written as > (a session first seen exactly grace_seconds
\* ago has already left the window).
InGraceStrict(session, settings, t) ==
    session.first_seen > t - Max(settings.grace_seconds, 0)

\* s.first_seen >= grace_window
InGrace(session, settings, t) ==
    session.first_seen >= t - Max(settings.grace_seconds, 0)

\* allowed_sessions without the ordered[:remaining] truncation.
AllowedSessionsNoCap(ss, settings, t) ==
    LET active == ActiveSessions(ss, settings, t)
        grace_sessions == SelectSeq(active, LAMBDA s : InGrace(s, settings, t))
        stable_sessions == SelectSeq(active, LAMBDA s : s \notin Range(grace_sessions))
        allowed1 == AppendUnique(<< >>, grace_sessions)
    IN  IF Unlimited(settings) THEN active
        ELSE AppendUnique(allowed1, stable_sessions)

\* allowed_sessions with the limit applied to the grace sessions too.
AllowedSessionsHardCap(ss, settings, t) ==
    LET active == ActiveSessions(ss, settings, t)
    IN  IF Unlimited(settings) THEN active
        ELSE Prefix(active, settings.max_concurrent[1])

\* allowed_sessions with the stable sessions ordered by first_seen under
\* either policy (the oldest wins also under new_wins).
AllowedSessionsOldestFirst(ss, settings, t) ==
    LET active == ActiveSessions(ss, settings, t)
        grace_sessions == SelectSeq(active, LAMBDA s : InGrace(s, settings, t))
        stable_sessions == SelectSeq(active, LAMBDA s : s \notin Range(grace_sessions))
        allowed1 == AppendUnique(<< >>, grace_sessions)
        remaining == Max(settings.max_concurrent[1], 0)
    IN  IF Unlimited(settings) THEN active
        ELSE AppendUnique(allowed1, Prefix(SortByFirstSeen(stable_sessions), remaining))

\* allowed_sessions with the stable sessions left in active order under
\* either policy (the most recent wins also under old_wins).
AllowedSessionsNewestFirst(ss, settings, t) ==
    LET active == ActiveSessions(ss, settings, t)
        grace_sessions == SelectSeq(active, LAMBDA s : InGrace(s, settings, t))
        stable_sessions == SelectSeq(active, LAMBDA s : s \notin Range(grace_sessions))
        allowed1 == AppendUnique(<< >>, grace_sessions)
        remaining == Max(settings.max_concurrent[1], 0)
    IN  IF Unlimited(settings) THEN active
        ELSE AppendUnique(allowed1, Prefix(stable_sessions, remaining))

\* allowed_sessions that never reorders: `ordered` is stable_sessions under
\* both policies.
AllowedSessionsPolicyIgnored(ss, settings, t) ==
    LET active == ActiveSessions(ss, settings, t)
        grace_sessions == SelectSeq(active, LAMBDA s : InGrace(s, settings, t))
        stable_sessions == SelectSeq(active, LAMBDA s : s \notin Range(grace_sessions))
        allowed1 == AppendUnique(<< >>, grace_sessions)
        stable_allowed == SelectSeq(allowed1, LAMBDA s : s \notin Range(grace_sessions))
        remaining == Max(settings.max_concurrent[1] - Len(stable_allowed), 0)
    IN  IF Unlimited(settings) THEN active
        ELSE IF remaining <= 0 THEN allowed1
        ELSE AppendUnique(allowed1, Prefix(stable_sessions, remaining))

\* allowed_sessions with the grace sessions counted against the limit
\* (remaining = max_concurrent - len(allowed)).
AllowedSessionsGraceCounted(ss, settings, t) ==
    LET active == ActiveSessions(ss, settings, t)
        grace_sessions == SelectSeq(active, LAMBDA s : InGrace(s, settings, t))
        stable_sessions == SelectSeq(active, LAMBDA s : s \notin Range(grace_sessions))
        allowed1 == AppendUnique(<< >>, grace_sessions)
        remaining == Max(settings.max_concurrent[1] - Len(allowed1), 0)
        ordered == IF settings.policy = NEW_WINS
                   THEN stable_sessions
                   ELSE SortByFirstSeen(stable_sessions)
    IN  IF Unlimited(settings) THEN active
        ELSE IF remaining <= 0 THEN allowed1
        ELSE AppendUnique(allowed1, Prefix(ordered, remaining))

\* allowed_sessions
AllowedSessions(ss, settings, t) ==
    LET active == ActiveSessions(ss, settings, t)
        grace_sessions == SelectSeq(active, LAMBDA s : InGrace(s, settings, t))
        stable_sessions == SelectSeq(active, LAMBDA s : s \notin Range(grace_sessions))
        allowed1 == AppendUnique(<< >>, grace_sessions)
        stable_allowed == SelectSeq(allowed1, LAMBDA s : s \notin Range(grace_sessions))
        remaining == Max(settings.max_concurrent[1] - Len(stable_allowed), 0)
        ordered == IF settings.policy = NEW_WINS
                   THEN stable_sessions
                   ELSE SortByFirstSeen(stable_sessions)
    IN  IF Unlimited(settings) THEN active
        ELSE IF remaining <= 0 THEN allowed1
        ELSE AppendUnique(allowed1, Prefix(ordered, remaining))

-----------------------------------------------------------------------------
(* The tracker driven through its public interface, as the tests and the   *)
(* daemon drive it: observe at the caller's clock, queries at any clock.   *)

Interfaces == {"wg0", "wg1"}
Peers == {"peerA", "peerB"}
Keys == Interfaces \X Peers

\* The key the tracker specification observes.
TrackerKey == <<"wg0", "peerA">>

\* Endpoint strings: "1.1:7", "1.2:8", " 1.1:7" and "(NONE)".
EP_A == <<"1", ".", "1", ":", "7">>
EP_B == <<"1", ".", "2", ":", "8">>
EP_A_PADDED == <<" ">> \o EP_A
EP_NONE == <<"(", "N", "O", "N", "E", ")">>

\* What wg reports for a peer without an endpoint, and what else observe
\* rejects: None, "", "  ", "(none)", "(NONE)", "(None)" and " (none) ".
RejectedRaws ==
    {None, Some(<< >>), Some(<<" ", " ">>), Some(NoneLiteral), Some(EP_NONE),
     Some(<<"(", "N", "o", "n", "e", ")">>),
     Some(<<" ">> \o NoneLiteral \o <<" ">>)}

NoCall == [op |-> "none"]

\* What observe(interface, peer_id, ...) was called with, and its locals:
\* `tracked` is sessions.get(endpoint) on entry, `existing` the same after
\* the call's _expire step.
ObserveCall(key, raw, latest_handshake, rx, tx, ttl_seconds, t) ==
    LET endpoint == NormalizeEndpoint(raw)
    IN  [op |-> "observe", key |-> key, endpoint |-> endpoint,
         latest_handshake |-> latest_handshake, rx_bytes |-> rx, tx_bytes |-> tx,
         ttl_seconds |-> ttl_seconds, now |-> t,
         tracked |-> DictGet(sessions[key], endpoint),
         existing |-> DictGet(Expire(sessions[key], ttl_seconds, t), endpoint)]

TrackerInit ==
    /\ sessions = [k \in Keys |-> << >>]
    /\ now = 0
    /\ call = NoCall

\* tracker.observe(interface, peer_id, endpoint, handshake, rx, tx, settings, now)
Observe(key, raw, latest_handshake, rx, tx, settings) ==
    /\ sessions' = [sessions EXCEPT ![key] =
            ObserveSessions(sessions[key], raw, latest_handshake, rx, tx, settings, now)]
    /\ call' = ObserveCall(key, raw, latest_handshake, rx, tx, settings.ttl_seconds, now)
    /\ UNCHANGED <<now, backendVars, repoVars, daemonVars, settingsVars>>

\* tracker.prune_peer(interface, peer_id)
PrunePeer(key) ==
    /\ sessions[key] # << >>
    /\ sessions' = [sessions EXCEPT ![key] = << >>]
    /\ call' = [op |-> "prune_peer", key |-> key]
    /\ UNCHANGED <<now, backendVars, repoVars, daemonVars, settingsVars>>

\* The caller's clock advances between calls.
Tick ==
    /\ now < MaxTime
    /\ now' = now + 1
    /\ UNCHANGED <<sessions, call, backendVars, repoVars, daemonVars, settingsVars>>

\* Every observation of the key, with inputs drawn from the given sets.
ObserveAny(raws, handshakes, rxs, txs) ==
    \E raw \in raws, hs \in handshakes, rx \in rxs, tx \in txs, ttl \in 1..MaxTtl :
        \* observe reads only ttl_seconds of the settings it is given
        Observe(TrackerKey, raw, hs, rx, tx,
                PeerLimitSettings(None, NEW_WINS, ttl, DEFAULT_GRACE_SECONDS))

\* Eviction policy and timing: a peer that roams between two endpoints, with
\* traffic (rx 0 -> 1) or silence (rx unchanged, or reset 1 -> 0).
PolicyNext ==
    \/ ObserveAny({Some(EP_A), Some(EP_B)}, {0}, {0, 1}, {0})
    \/ PrunePeer(TrackerKey)
    \/ Tick

\* The settings the daemon passes for a peer limited under old_wins.
OldWinsSettings == PeerLimitSettings(Some(MaxLimit), OLD_WINS, MaxTtl, 0)

\* tracker.observe for the peer with its stored settings.
ObserveOldWins(raw, rx) ==
    Observe(TrackerKey, raw, 0, rx, 0, OldWinsSettings)

\* A peer under one settings row that roams between two endpoints, with
\* traffic or silence; an endpoint whose session has expired or was pruned
\* comes back as a new session.
OldWinsNext ==
    \/ \E raw \in {Some(EP_A), Some(EP_B)}, rx \in {0, 1} : ObserveOldWins(raw, rx)
    \/ PrunePeer(TrackerKey)
    \/ Tick

\* Byte counters: one endpoint, sometimes reported as "(NONE)", every
\* value of both counters.
CountersNext ==
    \/ ObserveAny({Some(EP_A), Some(EP_NONE)}, {0}, 0..MaxBytes, 0..MaxBytes)
    \/ Tick

\* Handshakes: one endpoint, every handshake value, traffic or silence.
HandshakeNext ==
    \/ ObserveAny({Some(EP_A)}, 0..MaxHandshake, 0..MaxBytes, {0})
    \/ Tick

\* Endpoint strings: a peer reported with an endpoint (padded or not), with
\* none, and with each of the rejected strings.
EndpointsNext ==
    \/ ObserveAny(RejectedRaws \cup {Some(EP_A), Some(EP_A_PADDED)}, {0, 1}, {0, 1}, {0})
    \/ Tick

-----------------------------------------------------------------------------
(* peer_limiter_daemon.py : split_endpoint.                                *)

DigitChars == <<"0", "1", "2", "3", "4", "5", "6", "7", "8", "9">>

IsDigit(c) == \E i \in 1..10 : DigitChars[i] = c

DigitValue(c) == (CHOOSE i \in 1..10 : DigitChars[i] = c) - 1

RECURSIVE DecimalValue(_)
DecimalValue(digits) ==
    IF digits = << >> THEN 0
    ELSE 10 * DecimalValue(SubSeq(digits, 1, Len(digits) - 1))
         + DigitValue(digits[Len(digits)])

\* int(text): optional surrounding whitespace, an optional sign, then one or
\* more decimal digits; anything else raises ValueError (None here).
ParseInt(text) ==
    LET t == Strip(text)
        signed == t # << >> /\ Head(t) \in {"+", "-"}
        digits == IF signed THEN Tail(t) ELSE t
    IN  IF digits # << >> /\ \A i \in 1..Len(digits) : IsDigit(digits[i])
        THEN Some(IF signed /\ Head(t) = "-"
                  THEN 0 - DecimalValue(digits)
                  ELSE DecimalValue(digits))
        ELSE None

\* Where sep occurs in s (start positions).
Occurrences(s, sep) ==
    {i \in 1..(Len(s) - Len(sep) + 1) : SubSeq(s, i, i + Len(sep) - 1) = sep}

\* str.partition(sep) and str.rpartition(sep) as <<head, tail>>.
Partition(s, sep) ==
    LET occ == Occurrences(s, sep)
        i == CHOOSE j \in occ : \A k \in occ : j <= k
    IN  IF occ = {} THEN <<s, << >> >>
        ELSE <<SubSeq(s, 1, i - 1), SubSeq(s, i + Len(sep), Len(s))>>

RPartition(s, sep) ==
    LET occ == Occurrences(s, sep)
        i == CHOOSE j \in occ : \A k \in occ : j >= k
    IN  IF occ = {} THEN << << >>, s>>
        ELSE <<SubSeq(s, 1, i - 1), SubSeq(s, i + Len(sep), Len(s))>>

\* split_endpoint: Some(<<host, port>>) or None.
SplitEndpoint(raw) ==
    LET endpoint == Strip(raw)
        parts == IF Head(endpoint) = "["
                 THEN Partition(Tail(endpoint), <<"]", ":">>)
                 ELSE RPartition(endpoint, <<":">>)
        host == parts[1]
        port == parts[2]
    IN  IF endpoint = << >> \/ Lower(endpoint) = NoneLiteral THEN None
        ELSE IF host = << >> \/ port = << >> THEN None
        ELSE IF ParseInt(port) = None THEN None
        ELSE Some(<<host, ParseInt(port)[1]>>)

\* ":" in ip
IsIPv6(ip) == \E i \in 1..Len(ip) : ip[i] = ":"

\* The endpoint strings split_endpoint is called with: a host ("1.1", a
\* bracketed "f::1", or none) and a port text (empty, 0, positive, signed,
\* padded, not a number) around the separator, bare or after a blank; and
\* strings without a port part.
HostTexts == {<<"1", ".", "1">>, <<"[", "f", ":", ":", "1", "]">>, << >>}

PortTexts ==
    {<< >>, <<"0">>, <<"7">>, <<"7", "0">>, <<"0", "7">>, <<"-", "5">>, <<"-", "0">>,
     <<"+", "7">>, <<" ", "7">>, <<"x">>}

EndpointTexts ==
    {pad \o h \o <<":">> \o p : pad \in {<< >>, <<" ">>}, h \in HostTexts, p \in PortTexts}
        \cup {<< >>, <<" ">>, NoneLiteral, <<"1", ".", "1">>, <<"[", "f", ":", ":", "1", "]">>}

NotSplit == [called |-> FALSE, value |-> None]

SplitInit == endpointArg \in EndpointTexts /\ split = NotSplit

\* One call split_endpoint(endpointArg).
SplitCall ==
    /\ split = NotSplit
    /\ split' = [called |-> TRUE, value |-> SplitEndpoint(endpointArg)]
    /\ UNCHANGED <<endpointArg, row, built, trackerVars, backendVars, repoVars, daemonVars>>

SplitNext == SplitCall

SplitIdle == endpointArg = << >> /\ split = NotSplit

-----------------------------------------------------------------------------
(* modules/PeerLimits.py : PeerLimitSettings.from_row.                     *)
(* A column value is a Python object [type, v, text]: v is the integer of *)
(* an int, 0 or 1 for a bool, the number of halves of a float (3 is 1.5); *)
(* text is the characters of a str. mapping.get gives None for an absent  *)
(* column and for a NULL one alike.                                        *)

PyNone == [type |-> "NoneType", v |-> 0, text |-> << >>]
PyInt(n) == [type |-> "int", v |-> n, text |-> << >>]
PyBool(b) == [type |-> "bool", v |-> IF b THEN 1 ELSE 0, text |-> << >>]
PyFloat(halves) == [type |-> "float", v |-> halves, text |-> << >>]
PyStr(chars) == [type |-> "str", v |-> 0, text |-> chars]

\* isinstance(x, int): bool is a subclass of int.
IsInt(x) == x.type \in {"int", "bool"}

\* isinstance(x, (int, float))
IsIntOrFloat(x) == x.type \in {"int", "bool", "float"}

\* int(x) of an int, a bool or a float: a float is truncated towards zero.
IntOf(x) ==
    IF x.type = "float"
    THEN IF x.v >= 0 THEN x.v \div 2 ELSE 0 - ((0 - x.v) \div 2)
    ELSE x.v

Raised == [raised |-> TRUE, value |-> None]
Returned(value) == [raised |-> FALSE, value |-> Some(value)]

\* PeerLimitPolicy.from_string: the enum is looked up by exact value.
FromString(value) ==
    IF value = None THEN Returned(NEW_WINS)
    ELSE IF value[1] \in {NEW_WINS, OLD_WINS} THEN Returned(value[1])
    ELSE Raised

\* if isinstance(max_concurrent, (str, bytes)): max_concurrent = int(...)
CoerceText(max_concurrent) ==
    IF max_concurrent.type # "str" THEN Returned(max_concurrent)
    ELSE IF ParseInt(max_concurrent.text) = None THEN Raised
    ELSE Returned(PyInt(ParseInt(max_concurrent.text)[1]))

\* if isinstance(max_concurrent, int) and max_concurrent <= 0: ... = None
NonPositiveToNone(max_concurrent) ==
    IF IsInt(max_concurrent) /\ max_concurrent.v <= 0 THEN PyNone
    ELSE max_concurrent

\* int(x) if isinstance(x, (int, float)) else default
IntOrDefault(x, default) == IF IsIntOrFloat(x) THEN IntOf(x) ELSE default

\* from_row: the settings value, whose max_concurrent is the Python object
\* the code leaves there, or the ValueError of int() or of from_string.
FromRow(mapping) ==
    IF CoerceText(mapping.max_concurrent).raised THEN Raised
    ELSE IF FromString(mapping.connection_policy).raised THEN Raised
    ELSE Returned(PeerLimitSettings(
            NonPositiveToNone(CoerceText(mapping.max_concurrent).value[1]),
            FromString(mapping.connection_policy).value[1],
            Max(IntOrDefault(mapping.session_ttl, DEFAULT_TTL_SECONDS), 1),
            Max(IntOrDefault(mapping.grace_seconds, DEFAULT_GRACE_SECONDS), 0)))

\* The numbers a column is given, as int and as float (in halves).
ColumnNumbers ==
    {PyInt(n) : n \in (0 - MaxColumn)..MaxColumn}
        \cup {PyFloat(h) : h \in (0 - MaxColumn)..MaxColumn}
        \cup {PyBool(b) : b \in BOOLEAN}

MaxConcurrentColumn ==
    {PyNone} \cup ColumnNumbers
        \cup {PyStr(t) : t \in {<<"0">>, <<" ", "1">>, <<"-", "1">>, <<"x">>}}

SecondsColumn == {PyNone} \cup ColumnNumbers \cup {PyStr(<<"0">>)}

PolicyColumn == {None, Some(NEW_WINS), Some(OLD_WINS), Some("NEW_WINS"), Some("")}

RowSet ==
    [max_concurrent    : MaxConcurrentColumn,
     connection_policy : PolicyColumn,
     session_ttl       : SecondsColumn,
     grace_seconds     : SecondsColumn]

NotBuilt == [raised |-> FALSE, value |-> None]

SettingsInit == row \in RowSet /\ built = NotBuilt

\* One call PeerLimitSettings.from_row(row).
FromRowCall ==
    /\ built = NotBuilt
    /\ built' = FromRow(row)
    /\ UNCHANGED <<row, endpointArg, split, trackerVars, backendVars, repoVars, daemonVars>>

SettingsNext == FromRowCall

RowIdle ==
    /\ row = [max_concurrent |-> PyNone, connection_policy |-> None,
              session_ttl |-> PyNone, grace_seconds |-> PyNone]
    /\ built = NotBuilt

\* Neither function is under test.
SettingsIdle == RowIdle /\ SplitIdle

-----------------------------------------------------------------------------
(* peer_limiter_daemon.py : FirewallSyncPlan and the two backends.         *)
(* A machine m = [backend, kernel, commands, rc] is threaded through the   *)
(* commands of one sync call; rc is the return code of the last command.   *)

FirewallSyncPlan(ipv4, ipv6, port) == [ipv4 |-> ipv4, ipv6 |-> ipv6, port |-> port]

\* f"wggo_{interface}_allowed_v4", f"wggo_{interface}_allowed_v6",
\* f"wggo_{interface}_allowed" and f"wggo_{interface}".
SetName(interface, suffix) == <<"wggo", interface, "allowed", suffix>>
ChainName(interface) == <<"wggo", interface>>

SetNames ==
    {SetName(i, x) : i \in Interfaces, x \in {"v4", "v6", ""}}

\* _format_elements: one "ip . port" item per element, IPv6 in brackets.
FormatElement(e) ==
    <<IF IsIPv6(e[1]) /\ Head(e[1]) # "["
      THEN <<"[">> \o e[1] \o <<"]">>
      ELSE e[1],
      e[2]>>

FormatElements(elements) == {FormatElement(e) : e \in elements}

\* The element a formatted item names to the firewall tool.
ParseElement(item) ==
    <<IF item[1] # << >> /\ Head(item[1]) = "["
      THEN SubSeq(item[1], 2, Len(item[1]) - 1)
      ELSE item[1],
      item[2]>>

Command(verb, name, arg) == [verb |-> verb, name |-> name, arg |-> arg]

FreshKernel ==
    [table |-> FALSE, sets |-> {}, chains |-> {}, rules |-> << >>,
     elems |-> [n \in SetNames |-> {}]]

\* What the host does with one command: the new kernel state and the return
\* code.  `fails` holds the verbs that fail in this call for a reason of
\* the host's own (the command then changes nothing).
KernelExec(k, cmd, fails) ==
    LET ok(k2) == [kernel |-> k2, rc |-> 0]
        failed == [kernel |-> k, rc |-> 1]
        parsed == {ParseElement(x) : x \in cmd.arg}
    IN  IF cmd.verb \in fails THEN failed
        ELSE CASE cmd.verb = "list table" -> IF k.table THEN ok(k) ELSE failed
          [] cmd.verb = "add table" -> ok([k EXCEPT !.table = TRUE])
          [] cmd.verb \in {"list set", "ipset list"} ->
                IF cmd.name \in k.sets THEN ok(k) ELSE failed
          [] cmd.verb = "add set" ->
                IF k.table THEN ok([k EXCEPT !.sets = @ \cup {cmd.name}]) ELSE failed
          [] cmd.verb = "ipset create" ->
                IF cmd.name \in k.sets THEN failed
                ELSE ok([k EXCEPT !.sets = @ \cup {cmd.name}])
          [] cmd.verb = "list chain" ->
                IF cmd.name \in k.chains THEN ok(k) ELSE failed
          [] cmd.verb = "add chain" ->
                IF k.table THEN ok([k EXCEPT !.chains = @ \cup {cmd.name}]) ELSE failed
          [] cmd.verb = "add rule" ->
                IF cmd.name \in k.chains
                THEN ok([k EXCEPT !.rules = Append(@, <<cmd.name, cmd.arg>>)])
                ELSE failed
          [] cmd.verb = "iptables -C" ->
                IF \E i \in 1..Len(k.rules) : k.rules[i] = <<cmd.name, cmd.arg>>
                THEN ok(k) ELSE failed
          [] cmd.verb = "iptables -I" ->
                ok([k EXCEPT !.rules = <<<<cmd.name, cmd.arg>>>> \o @])
          [] cmd.verb = "add element" ->
                IF cmd.name \in k.sets
                THEN ok([k EXCEPT !.elems[cmd.name] = @ \cup parsed])
                ELSE failed
          [] cmd.verb = "delete element" ->
                IF cmd.name \in k.sets /\ parsed \subseteq k.elems[cmd.name]
                THEN ok([k EXCEPT !.elems[cmd.name] = @ \ parsed])
                ELSE failed
          [] cmd.verb = "ipset add" ->
                IF cmd.name \in k.sets /\ parsed \cap k.elems[cmd.name] = {}
                THEN ok([k EXCEPT !.elems[cmd.name] = @ \cup parsed])
                ELSE failed
          [] cmd.verb = "ipset del" ->
                IF cmd.name \in k.sets /\ parsed \subseteq k.elems[cmd.name]
                THEN ok([k EXCEPT !.elems[cmd.name] = @ \ parsed])
                ELSE failed

\* NftablesBackend._run / IptablesBackend._run: run the command, log a
\* failure at debug level, hand back the result.
Run(m, cmd, fails) ==
    CHOOSE out \in UNION {{[backend |-> x.backend, kernel |-> r.kernel,
                             commands |-> Append(x.commands, cmd), rc |-> r.rc] :
                                r \in {KernelExec(x.kernel, cmd, fails)}} :
                           x \in {m}} : TRUE

\* NftablesBackend.__init__ and IptablesBackend.__init__ (defaultdict(set):
\* an interface with no entry reads as the empty set).
NftablesBackend ==
    [kind |-> "nftables", initialized |-> {},
     current_v4 |-> [i \in Interfaces |-> {}],
     current_v6 |-> [i \in Interfaces |-> {}]]

IptablesBackend ==
    [kind |-> "iptables", initialized |-> {},
     current |-> [i \in Interfaces |-> {}]]

\* if self._run(probe).returncode != 0: self._run(create)
RunIfMissing(m, probe, create, fails) ==
    LET r == Run(m, probe, fails)
    IN  IF r.rc # 0 THEN Run(r, create, fails) ELSE r

\* self.initialized.add(interface)
MarkInitialized(m, interface) ==
    [m EXCEPT !.backend.initialized = @ \cup {interface}]

\* NftablesBackend.ensure_environment
NftEnsureEnvironment(m, fails) ==
    RunIfMissing(m, Command("list table", "wggo_limiter", {}),
                 Command("add table", "wggo_limiter", {}), fails)

\* ensure_interface: the set of one address family.
NftEnsureSet(m, set_name, fails) ==
    RunIfMissing(m, Command("list set", set_name, {}),
                 Command("add set", set_name, {}), fails)

\* ensure_interface: the chain and its three rules, added when the chain
\* is not listed.
NftAddChain(m, chain, port, set_v4, set_v6, fails) ==
    Run(Run(Run(Run(m, Command("add chain", chain, {}), fails),
                Command("add rule", chain, <<port, set_v4, "return">>), fails),
            Command("add rule", chain, <<port, set_v6, "return">>), fails),
        Command("add rule", chain, <<port, "drop">>), fails)

NftEnsureChain(m, chain, port, set_v4, set_v6, fails) ==
    LET r == Run(m, Command("list chain", chain, {}), fails)
    IN  IF r.rc # 0 THEN NftAddChain(r, chain, port, set_v4, set_v6, fails) ELSE r

\* NftablesBackend.ensure_interface
NftEnsureInterface(m, interface, port, fails) ==
    IF interface \in m.backend.initialized THEN m
    ELSE MarkInitialized(
             NftEnsureChain(
                 NftEnsureSet(NftEnsureSet(m, SetName(interface, "v4"), fails),
                              SetName(interface, "v6"), fails),
                 ChainName(interface), port,
                 SetName(interface, "v4"), SetName(interface, "v6"), fails),
             interface)

\* if elements: self._run([..., verb, ..., "{" + items + "}"])
RunIfAny(m, verb, set_name, elements, fails) ==
    IF elements # {}
    THEN Run(m, Command(verb, set_name, FormatElements(elements)), fails)
    ELSE m

\* _sync_set with to_add = desired (every desired element re-added).
NftSyncSetNoDiff(m, set_name, desired, current, fails) ==
    RunIfAny(RunIfAny(m, "add element", set_name, desired, fails),
             "delete element", set_name, current \ desired, fails)

\* NftablesBackend._sync_set: the commands it runs (it returns `desired`,
\* which sync stores as the new current set).
NftSyncSet(m, set_name, desired, current, fails) ==
    RunIfAny(RunIfAny(m, "add element", set_name, desired \ current, fails),
             "delete element", set_name, current \ desired, fails)

\* self.current_v4[interface] = self._sync_set(set_v4, plan.ipv4, ...)
NftSyncV4(m, interface, plan, fails) ==
    [NftSyncSet(m, SetName(interface, "v4"), plan.ipv4,
                m.backend.current_v4[interface], fails)
        EXCEPT !.backend.current_v4[interface] = plan.ipv4]

\* self.current_v6[interface] = self._sync_set(set_v6, plan.ipv6, ...)
NftSyncV6(m, interface, plan, fails) ==
    [NftSyncSet(m, SetName(interface, "v6"), plan.ipv6,
                m.backend.current_v6[interface], fails)
        EXCEPT !.backend.current_v6[interface] = plan.ipv6]

\* The body of the loop of NftablesBackend.sync for one interface.
NftSyncInterface(m, interface, plan, fails) ==
    NftSyncV6(NftSyncV4(NftEnsureInterface(m, interface, plan.port, fails),
                        interface, plan, fails),
              interface, plan, fails)

\* ensure_interface: the ipset, then the INPUT rule.
IptEnsureSetAndRule(m, set_name, rule, fails) ==
    RunIfMissing(
        RunIfMissing(m, Command("ipset list", set_name, {}),
                     Command("ipset create", set_name, {}), fails),
        Command("iptables -C", "INPUT", rule),
        Command("iptables -I", "INPUT", rule), fails)

\* ensure_interface called on every sync, initialized or not.
IptEnsureInterfaceAlways(m, interface, port, fails) ==
    MarkInitialized(
        IptEnsureSetAndRule(m, SetName(interface, ""),
                            <<port, SetName(interface, ""), "DROP">>, fails),
        interface)

\* IptablesBackend.ensure_interface
IptEnsureInterface(m, interface, port, fails) ==
    IF interface \in m.backend.initialized THEN m
    ELSE MarkInitialized(
             IptEnsureSetAndRule(m, SetName(interface, ""),
                                 <<port, SetName(interface, ""), "DROP">>, fails),
             interface)

\* for ip, port in elements: one command per element.  The iteration order
\* of a Python set is not specified; one order is taken.
RECURSIVE RunEach(_, _, _, _, _)
RunEach(m, verb, set_name, elements, fails) ==
    IF elements = {} THEN m
    ELSE LET e == CHOOSE x \in elements : TRUE
         IN  RunEach(Run(m, Command(verb, set_name, {e}), fails),
                     verb, set_name, elements \ {e}, fails)

\* IptablesBackend.sync without the assignment to self.current[interface].
IptSyncElementsUnrecorded(m, interface, plan, fails) ==
    RunEach(RunEach(m, "ipset add", SetName(interface, ""),
                    plan.ipv4 \ m.backend.current[interface], fails),
            "ipset del", SetName(interface, ""),
            m.backend.current[interface] \ plan.ipv4, fails)

\* IptablesBackend.sync after ensure_interface: to_add, to_remove, the
\* commands, and self.current[interface] = set(plan.ipv4).
IptSyncElements(m, interface, plan, fails) ==
    [RunEach(RunEach(m, "ipset add", SetName(interface, ""),
                     plan.ipv4 \ m.backend.current[interface], fails),
             "ipset del", SetName(interface, ""),
             m.backend.current[interface] \ plan.ipv4, fails)
        EXCEPT !.backend.current[interface] = plan.ipv4]

\* The body of the loop of IptablesBackend.sync for one interface (plan.ipv6
\* is only logged).
IptSyncInterface(m, interface, plan, fails) ==
    IptSyncElements(IptEnsureInterface(m, interface, plan.port, fails),
                    interface, plan, fails)

\* sync(plans): for interface, plan in plans.items().  plans is the dict as
\* a sequence of <<interface, plan>> in insertion order.
RECURSIVE SyncPlans(_, _, _)
SyncPlans(m, plans, fails) ==
    IF plans = << >> THEN m
    ELSE LET interface == Head(plans)[1]
             plan == Head(plans)[2]
         IN  SyncPlans(IF m.backend.kind = "nftables"
                       THEN NftSyncInterface(m, interface, plan, fails)
                       ELSE IptSyncInterface(m, interface, plan, fails),
                       Tail(plans), fails)

Machine(b, k) == [backend |-> b, kernel |-> k, commands |-> << >>, rc |-> 0]

\* FirewallBackend.detect on a host with the given tools: the backend
\* object after ensure_environment, and the host it left.
Detect(kind) ==
    IF kind = "nftables"
    THEN NftEnsureEnvironment(Machine(NftablesBackend, FreshKernel), {})
    ELSE Machine(IptablesBackend, FreshKernel)

-----------------------------------------------------------------------------
(* The backend driven through its interface.                               *)

\* The (ip, port) elements of the plans: split_endpoint of the endpoints.
EP_6 == <<"[", "f", ":", ":", "1", "]", ":", "9">>
ELEM_A == SplitEndpoint(EP_A)[1]
ELEM_B == SplitEndpoint(EP_B)[1]
ELEM_6 == SplitEndpoint(EP_6)[1]

ListenPort == [i \in Interfaces |-> IF i = "wg0" THEN 51820 ELSE 51821]

\* Plans for wg0 (any IPv4 and IPv6 elements), for wg1 (one IPv4 element),
\* for both, or for neither.
PlanSet ==
    LET p0 == {<<"wg0", FirewallSyncPlan(v4, v6, ListenPort["wg0"])>> :
                  v4 \in SUBSET {ELEM_A, ELEM_B}, v6 \in SUBSET {ELEM_6}}
        p1 == {<<"wg1", FirewallSyncPlan(v4, {}, ListenPort["wg1"])>> :
                  v4 \in {{ELEM_A}}}
    IN  {<< >>} \cup {<<a>> : a \in p0} \cup {<<b>> : b \in p1}
        \cup {<<a, b>> : a \in p0, b \in p1}

\* The commands that may fail on the host, per backend.
ElementVerbs(kind) ==
    IF kind = "nftables" THEN {"add element", "delete element"}
    ELSE {"ipset add", "ipset del"}

BackendInit ==
    \E kind \in {"nftables", "iptables"} :
        /\ backend = Detect(kind).backend
        /\ kernel = Detect(kind).kernel
        /\ commands = << >>
        /\ lastPlans = None
        /\ repeated = FALSE

\* backend.sync(plans): what the call does to the backend and its host.
SyncCall(plans, fails) ==
    \E m \in {SyncPlans(Machine(backend, kernel), plans, fails)} :
        /\ backend' = m.backend
        /\ kernel' = m.kernel
        /\ commands' = m.commands
        /\ lastPlans' = Some(plans)
        /\ repeated' = (lastPlans = Some(plans))

\* backend.sync(plans), called on its own.
Sync(plans, fails) ==
    /\ SyncCall(plans, fails)
    /\ UNCHANGED <<trackerVars, repoVars, daemonVars, settingsVars>>

\* backend.teardown_peer(interface)
TeardownPeer(interface) ==
    /\ backend' = IF backend.kind = "nftables"
                  THEN [backend EXCEPT !.current_v4[interface] = {},
                                       !.current_v6[interface] = {}]
                  ELSE [backend EXCEPT !.current[interface] = {}]
    /\ backend' # backend
    /\ lastPlans' = None
    /\ repeated' = FALSE
    /\ UNCHANGED <<kernel, commands, trackerVars, repoVars, daemonVars, settingsVars>>

BackendNext ==
    \/ \E plans \in PlanSet, fails \in SUBSET ElementVerbs(backend.kind) :
          Sync(plans, fails)
    \/ \E interface \in Interfaces : TeardownPeer(interface)

\* FirewallBackend.detect in a new daemon process on the host the previous
\* process left: a new backend object, ensure_environment on that host.
DetectOn(kind, k) ==
    IF kind = "nftables"
    THEN NftEnsureEnvironment(Machine(NftablesBackend, k), {})
    ELSE Machine(IptablesBackend, k)

\* The daemon is restarted: PeerLimiterDaemon.__init__ runs again, the
\* tables, sets and rules of the host stay as they are.
Restart ==
    /\ \E m \in {DetectOn(backend.kind, kernel)} :
          /\ backend' = m.backend
          /\ kernel' = m.kernel
          /\ commands' = m.commands
    /\ lastPlans' = None
    /\ repeated' = FALSE
    /\ UNCHANGED <<trackerVars, repoVars, daemonVars, settingsVars>>

\* Syncs whose element commands pass or fail on the host, and restarts.
RestartNext ==
    \/ \E plans \in PlanSet, fails \in {{}, ElementVerbs(backend.kind)} :
          Sync(plans, fails)
    \/ Restart

TrackerIdle == sessions = [k \in Keys |-> << >>] /\ now = 0 /\ call = NoCall

BackendIdle ==
    /\ backend = NftablesBackend
    /\ kernel = FreshKernel
    /\ commands = << >>
    /\ lastPlans = None
    /\ repeated = FALSE

-----------------------------------------------------------------------------
(* modules/PeerLimiterState.py : PeerLimiterStateRepository.               *)

\* The dict the daemon builds for one session (iteration, records.append).
SessionRecord(session, is_allowed) ==
    [Endpoint |-> session.endpoint, LastHandshake |-> session.last_handshake,
     FirstSeen |-> session.first_seen, LastSeen |-> session.last_seen,
     RxBytes |-> session.rx_bytes, TxBytes |-> session.tx_bytes,
     RxDelta |-> session.rx_delta, TxDelta |-> session.tx_delta,
     IsAllowed |-> is_allowed]

\* The row upsert_sessions builds from one passed dict (every key present,
\* as the daemon passes them; int() and bool() leave ints and bools as is).
RowOf(interface, peer_id, record, t) ==
    [Interface |-> interface, PeerID |-> peer_id,
     Endpoint |-> record.Endpoint, LastHandshake |-> record.LastHandshake,
     FirstSeen |-> record.FirstSeen, LastSeen |-> record.LastSeen,
     RxBytes |-> record.RxBytes, TxBytes |-> record.TxBytes,
     RxDelta |-> record.RxDelta, TxDelta |-> record.TxDelta,
     IsAllowed |-> record.IsAllowed, UpdatedAt |-> t]

BuildRecords(interface, peer_id, passed, t) ==
    [i \in 1..Len(passed) |-> RowOf(interface, peer_id, passed[i], t)]

\* DELETE ... WHERE Interface = interface AND PeerID = peer_id
DeletePeerRows(table, interface, peer_id) ==
    {r \in table : ~(r.Interface = interface /\ r.PeerID = peer_id)}

PrimaryKey(r) == <<r.Interface, r.PeerID, r.Endpoint>>

\* INSERT of the records violates PRIMARY KEY (Interface, PeerID, Endpoint).
PrimaryKeyViolation(table, records) ==
    \/ \E i, j \in 1..Len(records) : i # j /\ PrimaryKey(records[i]) = PrimaryKey(records[j])
    \/ \E i \in 1..Len(records) : \E r \in table : PrimaryKey(r) = PrimaryKey(records[i])

\* A statement run on a connection that commits each statement at once.
StatementAutocommit(committed, view) == [rows |-> view, view |-> view]

\* A statement run inside `with self.engine.begin() as conn`: it changes
\* the transaction's view, and the committed rows not before the commit.
StatementInTransaction(committed, view) == [rows |-> committed, view |-> view]

PeerRows(table, interface, peer_id) ==
    {r \in table : r.Interface = interface /\ r.PeerID = peer_id}

\* How an upsert_sessions call ended; `gone` holds the endpoints of the
\* peer's rows that the call removed without replacing them.
UpsertOutcome(outcome, t, table) ==
    [outcome |-> outcome, interface |-> t.interface, peer_id |-> t.peer_id,
     gone |-> {r.Endpoint : r \in PeerRows(t.before, t.interface, t.peer_id)}
              \ {r.Endpoint : r \in PeerRows(table, t.interface, t.peer_id)}]

NoUpsert == [outcome |-> "none"]
NoRead == [during |-> FALSE]

RepoInit ==
    /\ rows = {}
    /\ txn = None
    /\ lastUpsert = NoUpsert
    /\ lastRead = NoRead

\* upsert_sessions up to the opening of the transaction.
UpsertBegin(interface, peer_id, passed) ==
    /\ txn = None
    /\ txn' = Some([interface |-> interface, peer_id |-> peer_id, passed |-> passed,
                    records |-> BuildRecords(interface, peer_id, passed, now),
                    before |-> rows, view |-> rows, pc |-> "delete"])
    /\ UNCHANGED <<rows, lastUpsert, lastRead, trackerVars, backendVars, daemonVars, settingsVars>>

\* conn.execute(self.sessions_table.delete().where(...))
UpsertDelete ==
    /\ txn # None /\ txn[1].pc = "delete"
    /\ LET t == txn[1]
           r == StatementInTransaction(rows,
                    DeletePeerRows(t.view, t.interface, t.peer_id))
       IN  /\ rows' = r.rows
           /\ txn' = Some([t EXCEPT !.view = r.view, !.pc = "insert"])
    /\ UNCHANGED <<lastUpsert, lastRead, trackerVars, backendVars, daemonVars, settingsVars>>

\* if records: conn.execute(self.sessions_table.insert(), records); an
\* IntegrityError leaves the with block, which rolls the transaction back.
UpsertInsert ==
    /\ txn # None /\ txn[1].pc = "insert"
    /\ LET t == txn[1]
       IN  IF t.records # << >> /\ PrimaryKeyViolation(t.view, t.records)
           THEN /\ txn' = None
                /\ rows' = t.before
                /\ lastUpsert' = UpsertOutcome("raised", t, t.before)
           ELSE LET r == StatementInTransaction(rows, t.view \cup Range(t.records))
                IN  /\ rows' = r.rows
                    /\ txn' = Some([t EXCEPT !.view = r.view, !.pc = "commit"])
                    /\ UNCHANGED lastUpsert
    /\ UNCHANGED <<lastRead, trackerVars, backendVars, daemonVars, settingsVars>>

\* The with block ends: commit.
UpsertCommit ==
    /\ txn # None /\ txn[1].pc = "commit"
    /\ rows' = txn[1].view
    /\ txn' = None
    /\ lastUpsert' = UpsertOutcome("committed", txn[1], txn[1].view)
    /\ UNCHANGED <<lastRead, trackerVars, backendVars, daemonVars, settingsVars>>

\* get_sessions' SELECT on another connection (the dashboard), run between
\* the DELETE and the commit of an upsert of the same peer: it reads the
\* committed rows.  `before` holds the peer's rows as they were when that
\* upsert began.
ReaderSelect(interface, peer_id) ==
    /\ txn # None
    /\ txn[1].pc \in {"insert", "commit"}
    /\ txn[1].interface = interface /\ txn[1].peer_id = peer_id
    /\ lastRead' = [during |-> TRUE,
                    rows |-> PeerRows(rows, interface, peer_id),
                    before |-> PeerRows(txn[1].before, interface, peer_id)]
    /\ UNCHANGED <<rows, txn, lastUpsert, trackerVars, backendVars, daemonVars, settingsVars>>

\* The record lists passed for peerA: none, one or two sessions, allowed or
\* denied, also the same endpoint twice; for peerB: none or one session.
PassedRecords(peer_id) ==
    LET one == {SessionRecord(NewSession(e, None, 0, 0, 0), a) :
                   e \in {EP_A, EP_B}, a \in BOOLEAN}
        first == SessionRecord(NewSession(EP_A, None, 0, 0, 0), TRUE)
    IN  IF peer_id = "peerA"
        THEN {<< >>} \cup {<<x>> : x \in one}
             \cup {<<x, y>> : x \in one, y \in {z \in one : z.IsAllowed}}
        ELSE {<< >>, <<first>>}

RepoNext ==
    \/ \E peer_id \in Peers : \E passed \in PassedRecords(peer_id) :
          UpsertBegin("wg0", peer_id, passed)
    \/ UpsertDelete
    \/ UpsertInsert
    \/ UpsertCommit
    \/ \E peer_id \in Peers : ReaderSelect("wg0", peer_id)

RepoIdle == RepoInit

-----------------------------------------------------------------------------
(* peer_limiter_daemon.py : PeerLimiterDaemon.                             *)

\* One peer entry and one interface entry of the dict collect() returns.
PeerInfo(public_key, endpoint, latest_handshake, rx_bytes, tx_bytes) ==
    [public_key |-> public_key, endpoint |-> endpoint,
     latest_handshake |-> latest_handshake, rx_bytes |-> rx_bytes, tx_bytes |-> tx_bytes]

InterfaceInfo(listen_port, peers) == [listen_port |-> listen_port, peers |-> peers]

Endpoints(ss) == [i \in 1..Len(ss) |-> ss[i].endpoint]

\* for session in active: the plan after the sessions' endpoints were added
\* (split_endpoint, then ipv6 when ":" is in ip, else ipv4).
RECURSIVE AddToPlan(_, _)
AddToPlan(p, active) ==
    IF active = << >> THEN p
    ELSE LET endpoint_tuple == SplitEndpoint(Head(active).endpoint)
             q == IF endpoint_tuple = None THEN p
                  ELSE IF IsIPv6(endpoint_tuple[1][1])
                       THEN [p EXCEPT !.ipv6 = @ \cup {endpoint_tuple[1]}]
                       ELSE [p EXCEPT !.ipv4 = @ \cup {endpoint_tuple[1]}]
         IN  AddToPlan(q, Tail(active))

\* The records list with IsAllowed left at the repository's default (True).
ActiveRecordsAllAllowed(active, allowed) ==
    [i \in 1..Len(active) |-> SessionRecord(active[i], TRUE)]

\* The records list built for one peer: every active session, IsAllowed set
\* when its endpoint is among the allowed ones.
ActiveRecords(active, allowed) ==
    [i \in 1..Len(active) |->
        SessionRecord(active[i], active[i].endpoint \in Range(Endpoints(allowed)))]

\* upsert_sessions as one step (no other connection reads in between).
Upsert(table, interface, peer_id, passed, t) ==
    DeletePeerRows(table, interface, peer_id)
        \cup Range(BuildRecords(interface, peer_id, passed, t))

\* PeerLimiterDaemon.__init__ (_running = True) and run() up to the first
\* test of the while loop.
DaemonStart ==
    /\ pc = "ready"
    /\ todo = << >>
    /\ ifacePlan = None
    /\ tickPlans = << >>
    /\ decisions = {}
    /\ running = TRUE
    /\ failure = None
    /\ stdout = None

\* No interface table holds a row.
NoRows == [k \in Keys |-> None]

DaemonInit == DaemonStart /\ store = NoRows

\* while self._running: (true) ... try: self.iteration()
LoopEnter ==
    /\ pc = "ready"
    /\ running
    /\ pc' = "collect"
    /\ stdout' = None
    /\ UNCHANGED <<todo, ifacePlan, tickPlans, decisions, running, failure, store,
                   trackerVars, backendVars, repoVars, settingsVars>>

\* time.sleep(sleep_time) in run(): the clock advances between iterations
\* (one tick of the clock per poll interval).
Sleep ==
    /\ pc = "sleep"
    /\ now < MaxTime
    /\ now' = now + 1
    /\ pc' = "ready"
    /\ UNCHANGED <<sessions, call, todo, ifacePlan, tickPlans, decisions,
                   backendVars, repoVars, settingsVars, runVars>>

\* iteration() up to the loop: dump = collect(), plans = {}, now = now().
IterationBegin(dump) ==
    /\ pc = "collect"
    /\ pc' = "interface"
    /\ todo' = dump
    /\ ifacePlan' = None
    /\ tickPlans' = << >>
    /\ decisions' = {}
    /\ UNCHANGED <<trackerVars, backendVars, repoVars, settingsVars, runVars>>

\* for interface, info in dump.items(): plan = FirewallSyncPlan(...)
IterationInterface ==
    /\ pc = "interface"
    /\ todo # << >>
    /\ ifacePlan' = Some(FirewallSyncPlan({}, {}, Head(todo)[2].listen_port))
    /\ pc' = "peers"
    /\ UNCHANGED <<todo, tickPlans, decisions, trackerVars, backendVars, repoVars, settingsVars, runVars>>

\* What the body of the peer loop makes of the tracker's maps, the table
\* and the interface's plan for one peer of the dump: observe, the two
\* queries, the additions to the plan and upsert_sessions.
PeerStep(st, interface, peer_info, settings, t) ==
    LET key == <<interface, peer_info.public_key>>
        observed == ObserveSessions(st.sessions[key], Some(peer_info.endpoint),
                        peer_info.latest_handshake, peer_info.rx_bytes,
                        peer_info.tx_bytes, settings, t)
        active == ActiveSessions(observed, settings, t)
        allowed == AllowedSessions(observed, settings, t)
    IN  [sessions |-> [st.sessions EXCEPT ![key] = observed],
         rows |-> Upsert(st.rows, interface, peer_info.public_key,
                         ActiveRecords(active, allowed), t),
         plan |-> AddToPlan(st.plan, active)]

\* The body of the peer loop over a tracker that keeps one session map per
\* interface (key = interface instead of (interface, peer_id)).
IterationPeerOneMap(settings) ==
    /\ pc = "peers"
    /\ Head(todo)[2].peers # << >>
    /\ \E interface \in {Head(todo)[1]}, peer_info \in {Head(Head(todo)[2].peers)} :
       \E peer_id \in {peer_info.public_key}, key \in {<<interface, peer_info.public_key>>} :
       \E observed \in {ObserveSessions(sessions[key], Some(peer_info.endpoint),
                            peer_info.latest_handshake, peer_info.rx_bytes,
                            peer_info.tx_bytes, settings, now)} :
       \E active \in {ActiveSessions(observed, settings, now)},
          allowed \in {AllowedSessions(observed, settings, now)} :
       \E records \in {ActiveRecords(active, allowed)} :
           /\ sessions' = [k \in Keys |-> IF k[1] = interface THEN observed
                                                              ELSE sessions[k]]
           /\ call' = ObserveCall(key, Some(peer_info.endpoint),
                          peer_info.latest_handshake, peer_info.rx_bytes,
                          peer_info.tx_bytes, settings.ttl_seconds, now)
           /\ ifacePlan' = Some(AddToPlan(ifacePlan[1], active))
           /\ rows' = Upsert(rows, interface, peer_id, records, now)
           /\ lastUpsert' = UpsertOutcome("committed",
                  [interface |-> interface, peer_id |-> peer_id, before |-> rows],
                  rows')
           /\ decisions' = decisions \cup
                  {[interface |-> interface, peer_id |-> peer_id,
                    active |-> Endpoints(active), allowed |-> Endpoints(allowed),
                    passed |-> records]}
           /\ todo' = [todo EXCEPT ![1][2].peers = Tail(@)]
    /\ UNCHANGED <<now, pc, tickPlans, txn, lastRead, backendVars, settingsVars, runVars>>

\* The body of `for peer_info in info.get("peers", [])` for one peer, with
\* the settings get_peer_settings returned for it.
IterationPeer(settings) ==
    /\ pc = "peers"
    /\ Head(todo)[2].peers # << >>
    /\ \E interface \in {Head(todo)[1]}, peer_info \in {Head(Head(todo)[2].peers)} :
       \E peer_id \in {peer_info.public_key}, key \in {<<interface, peer_info.public_key>>} :
       \E observed \in {ObserveSessions(sessions[key], Some(peer_info.endpoint),
                            peer_info.latest_handshake, peer_info.rx_bytes,
                            peer_info.tx_bytes, settings, now)} :
       \E active \in {ActiveSessions(observed, settings, now)},
          allowed \in {AllowedSessions(observed, settings, now)} :
       \E records \in {ActiveRecords(active, allowed)} :
           /\ sessions' = [sessions EXCEPT ![key] = observed]
           /\ call' = ObserveCall(key, Some(peer_info.endpoint),
                          peer_info.latest_handshake, peer_info.rx_bytes,
                          peer_info.tx_bytes, settings.ttl_seconds, now)
           /\ ifacePlan' = Some(AddToPlan(ifacePlan[1], active))
           /\ rows' = Upsert(rows, interface, peer_id, records, now)
           /\ lastUpsert' = UpsertOutcome("committed",
                  [interface |-> interface, peer_id |-> peer_id, before |-> rows],
                  rows')
           /\ decisions' = decisions \cup
                  {[interface |-> interface, peer_id |-> peer_id,
                    active |-> Endpoints(active), allowed |-> Endpoints(allowed),
                    passed |-> records]}
           /\ todo' = [todo EXCEPT ![1][2].peers = Tail(@)]
    /\ UNCHANGED <<now, pc, tickPlans, txn, lastRead, backendVars, settingsVars, runVars>>

\* plans[interface] = plan, after the last peer of the interface.
IterationInterfaceDone ==
    /\ pc = "peers"
    /\ Head(todo)[2].peers = << >>
    /\ tickPlans' = Append(tickPlans, <<Head(todo)[1], ifacePlan[1]>>)
    /\ ifacePlan' = None
    /\ todo' = Tail(todo)
    /\ pc' = "interface"
    /\ UNCHANGED <<decisions, trackerVars, backendVars, repoVars, settingsVars, runVars>>

\* backend.sync(plans) indented into the loop over the interfaces: called
\* after each interface whose plan was stored.
IterationSyncInsideLoop(fails) ==
    /\ pc = "interface"
    /\ tickPlans # << >>
    /\ SyncCall(tickPlans, fails)
    /\ pc' = IF todo = << >> THEN "sleep" ELSE "interface"
    /\ UNCHANGED <<todo, ifacePlan, tickPlans, decisions, trackerVars, repoVars, settingsVars, runVars>>

\* if self.backend: self.backend.sync(plans); iteration returns.
IterationSync(fails) ==
    /\ pc = "interface"
    /\ todo = << >>
    /\ SyncCall(tickPlans, fails)
    /\ pc' = "sleep"
    /\ UNCHANGED <<todo, ifacePlan, tickPlans, decisions, trackerVars, repoVars, settingsVars, runVars>>

\* What `wg show all dump` reports in a tick: nothing; peerA of wg0 at one
\* of two IPv4 endpoints, silent or with traffic; and also peerB of wg1 at
\* an IPv6 endpoint.
DumpSet ==
    LET a == {PeerInfo("peerA", e, 0, rx, 0) : e \in {EP_A, EP_B}, rx \in {0, 1}}
        b == PeerInfo("peerB", EP_6, 0, 0, 0)
    IN  {<< >>}
        \cup {<< <<"wg0", InterfaceInfo(ListenPort["wg0"], <<x>>)>> >> : x \in a}
        \cup {<< <<"wg0", InterfaceInfo(ListenPort["wg0"], <<x>>)>>,
                 <<"wg1", InterfaceInfo(ListenPort["wg1"], <<b>>)>> >> :
                    x \in {y \in a : y.endpoint = EP_A /\ y.rx_bytes = 0}}

\* The settings rows of the peers: a limit of MaxLimit endpoints, either
\* policy, no grace or one second of it.
StoredSettings ==
    {PeerLimitSettings(Some(MaxLimit), policy, MaxTtl, grace) :
        policy \in {NEW_WINS, OLD_WINS}, grace \in {0, 1}}

DaemonNext ==
    \/ Sleep
    \/ LoopEnter
    \/ \E dump \in DumpSet : IterationBegin(dump)
    \/ IterationInterface
    \/ \E settings \in StoredSettings : IterationPeer(settings)
    \/ IterationInterfaceDone
    \/ \E fails \in {{}, ElementVerbs(backend.kind)} : IterationSync(fails)

DaemonIdle == DaemonInit

-----------------------------------------------------------------------------
(* peer_limiter_daemon.py : WireGuardDumpCollector.collect.                *)
(* The output of `wg show all dump` is a sequence of lines, a line the     *)
(* sequence of its tab-separated fields, a field a text; the name of an    *)
(* interface or of a peer is a text of one token.                          *)

Token(name) == <<name>>

\* int(field) if field else 0: None when int() raises ValueError.
IntOrZero(field) == IF field = << >> THEN Some(0) ELSE ParseInt(field)

\* interfaces[name] = info: a new key goes last, a known key keeps its place.
PutInterface(interfaces, name, info) ==
    IF \E i \in 1..Len(interfaces) : interfaces[i][1] = name
    THEN [i \in 1..Len(interfaces) |->
            IF interfaces[i][1] = name THEN <<name, info>> ELSE interfaces[i]]
    ELSE Append(interfaces, <<name, info>>)

\* interfaces[name]["peers"].append(peer)
AppendPeer(interfaces, name, peer) ==
    [i \in 1..Len(interfaces) |->
        IF interfaces[i][1] = name
        THEN <<name, [interfaces[i][2] EXCEPT !.peers = Append(@, peer)]>>
        ELSE interfaces[i]]

\* The loop over the lines of stdout: a line of 5 fields opens an interface,
\* a line of 8 or more fields under an open interface adds a peer, any
\* other line is passed over; int() on a field that is no integer raises.
RECURSIVE CollectLines(_, _, _)
CollectLines(lines, interfaces, current_iface) ==
    IF lines = << >> THEN Returned(interfaces)
    ELSE IF Len(Head(lines)) = 5
    THEN IF IntOrZero(Head(lines)[4]) = None THEN Raised
         ELSE CollectLines(Tail(lines),
                  PutInterface(interfaces, Head(lines)[1][1],
                      InterfaceInfo(IntOrZero(Head(lines)[4])[1], << >>)),
                  Some(Head(lines)[1][1]))
    ELSE IF Len(Head(lines)) >= 8 /\ current_iface # None
    THEN IF \E i \in 5..7 : IntOrZero(Head(lines)[i]) = None THEN Raised
         ELSE CollectLines(Tail(lines),
                  AppendPeer(interfaces, current_iface[1],
                      PeerInfo(Head(lines)[1][1], Head(lines)[3],
                          IntOrZero(Head(lines)[5])[1],
                          IntOrZero(Head(lines)[6])[1],
                          IntOrZero(Head(lines)[7])[1])),
                  current_iface)
    ELSE CollectLines(Tail(lines), interfaces, current_iface)

\* collect() on the stdout of a `wg show all dump` that exited 0.
Collect(lines) == CollectLines(lines, << >>, None)

-----------------------------------------------------------------------------
(* peer_limiter_daemon.py : PeerLimiterDaemon.run, with the exceptions of  *)
(* iteration() and the stop signal.                                        *)

Failure(at, error) == Some([at |-> at, error |-> error])

\* The default dataclass value, PeerLimitSettings().
DefaultSettings ==
    PeerLimitSettings(None, NEW_WINS, DEFAULT_TTL_SECONDS, DEFAULT_GRACE_SECONDS)

\* The settings value of from_row as the tracker reads it (max_concurrent
\* None or an int).
TrackerSettings(settings) ==
    [settings EXCEPT !.max_concurrent = IF @ = PyNone THEN None ELSE Some(@.v)]

\* `if not row: return PeerLimitSettings()`, else from_row(row).
GetPeerSettings(stored) ==
    IF stored = None THEN Returned(DefaultSettings)
    ELSE IF FromRow(stored[1]).raised THEN Raised
    ELSE Returned(TrackerSettings(FromRow(stored[1]).value[1]))

\* The key of the peer the loop of iteration() is at.
CurrentKey == <<Head(todo)[1], Head(Head(todo)[2].peers).public_key>>

\* The body of the peer loop with the row the store holds for the peer:
\* get_peer_settings raises the ValueError of from_row, or the body runs
\* with the settings it returned.
IterationPeerStored ==
    /\ pc = "peers"
    /\ Head(todo)[2].peers # << >>
    /\ IF GetPeerSettings(store[CurrentKey]).raised
       THEN /\ pc' = "raised"
            /\ failure' = Failure("get_peer_settings", "ValueError")
            /\ UNCHANGED <<todo, ifacePlan, tickPlans, decisions, running, stdout,
                           store, trackerVars, backendVars, repoVars, settingsVars>>
       ELSE IterationPeer(GetPeerSettings(store[CurrentKey]).value[1])

\* conn.execute raises in get_peer_settings (the database is unreachable):
\* the peer is not observed.
SettingsQueryFails ==
    /\ pc = "peers"
    /\ Head(todo)[2].peers # << >>
    /\ pc' = "raised"
    /\ failure' = Failure("get_peer_settings", "DBAPIError")
    /\ UNCHANGED <<todo, ifacePlan, tickPlans, decisions, running, stdout,
                   store, trackerVars, backendVars, repoVars, settingsVars>>

\* upsert_sessions raises: the peer was observed, the transaction is rolled
\* back.
UpsertFails ==
    /\ pc = "peers"
    /\ Head(todo)[2].peers # << >>
    /\ ~GetPeerSettings(store[CurrentKey]).raised
    /\ sessions' = [sessions EXCEPT ![CurrentKey] =
           ObserveSessions(@, Some(Head(Head(todo)[2].peers).endpoint),
               Head(Head(todo)[2].peers).latest_handshake,
               Head(Head(todo)[2].peers).rx_bytes,
               Head(Head(todo)[2].peers).tx_bytes,
               GetPeerSettings(store[CurrentKey]).value[1], now)]
    /\ call' = ObserveCall(CurrentKey, Some(Head(Head(todo)[2].peers).endpoint),
                   Head(Head(todo)[2].peers).latest_handshake,
                   Head(Head(todo)[2].peers).rx_bytes,
                   Head(Head(todo)[2].peers).tx_bytes,
                   GetPeerSettings(store[CurrentKey]).value[1].ttl_seconds, now)
    /\ pc' = "raised"
    /\ failure' = Failure("upsert_sessions", "DBAPIError")
    /\ UNCHANGED <<now, todo, ifacePlan, tickPlans, decisions, running, stdout,
                   store, backendVars, repoVars, settingsVars>>

\* collect() raises RuntimeError: wg is not installed or exited non-zero.
CollectFails ==
    /\ pc = "collect"
    /\ pc' = "raised"
    /\ failure' = Failure("collect", "RuntimeError")
    /\ UNCHANGED <<todo, ifacePlan, tickPlans, decisions, running, stdout,
                   store, trackerVars, backendVars, repoVars, settingsVars>>

\* iteration() up to the loop, on what wg printed: collect() returns the
\* dump, or int() raises ValueError out of it.
IterationCollect(output) ==
    /\ pc = "collect"
    /\ stdout' = Some(output)
    /\ IF Collect(output).raised
       THEN /\ pc' = "raised"
            /\ failure' = Failure("collect", "ValueError")
            /\ UNCHANGED <<todo, ifacePlan, tickPlans, decisions>>
       ELSE /\ pc' = "interface"
            /\ todo' = Collect(output).value[1]
            /\ ifacePlan' = None
            /\ tickPlans' = << >>
            /\ decisions' = {}
            /\ failure' = None
    /\ UNCHANGED <<running, store, trackerVars, backendVars, repoVars, settingsVars>>

\* run() without the try: the exception leaves run().
CatchNothing ==
    /\ pc = "raised"
    /\ pc' = "returned"
    /\ todo' = << >>
    /\ ifacePlan' = None
    /\ tickPlans' = << >>
    /\ UNCHANGED <<decisions, runVars, trackerVars, backendVars, repoVars, settingsVars>>

\* except Exception as exc: logger.exception(...); the locals of the
\* iteration are gone.
Catch ==
    /\ pc = "raised"
    /\ pc' = "sleep"
    /\ todo' = << >>
    /\ ifacePlan' = None
    /\ tickPlans' = << >>
    /\ UNCHANGED <<decisions, runVars, trackerVars, backendVars, repoVars, settingsVars>>

\* time.sleep(sleep_time) with a sleep_time (at least 0.1 s) that does not
\* reach the next second of the clock.
Nap ==
    /\ pc = "sleep"
    /\ pc' = "ready"
    /\ UNCHANGED <<todo, ifacePlan, tickPlans, decisions, runVars,
                   trackerVars, backendVars, repoVars, settingsVars>>

\* while self._running: (false); run() logs and returns.
LoopExit ==
    /\ pc = "ready"
    /\ ~running
    /\ pc' = "returned"
    /\ UNCHANGED <<todo, ifacePlan, tickPlans, decisions, runVars,
                   trackerVars, backendVars, repoVars, settingsVars>>

\* A handler that ends run() where it stands (sys.exit in the handler).
StopAtOnce ==
    /\ running
    /\ pc # "returned"
    /\ running' = FALSE
    /\ pc' = "returned"
    /\ UNCHANGED <<todo, ifacePlan, tickPlans, decisions, failure, stdout,
                   store, trackerVars, backendVars, repoVars, settingsVars>>

\* SIGINT or SIGTERM: the handler stop() runs between two steps of run().
Stop ==
    /\ running
    /\ pc # "returned"
    /\ running' = FALSE
    /\ UNCHANGED <<pc, todo, ifacePlan, tickPlans, decisions, failure, stdout,
                   store, trackerVars, backendVars, repoVars, settingsVars>>

\* Lines of the dump: the header of an interface, the line of a peer.
PortText == <<"5", "1", "8", "2", "0">>

HeaderLine(interface, listen_port) ==
    <<Token(interface), Token("private"), Token("public"), listen_port, Token("off")>>

PeerLine(public_key, endpoint, latest_handshake, rx_bytes, tx_bytes) ==
    <<Token(public_key), Token("(none)"), endpoint, Token("0.0.0.0/0"),
      latest_handshake, rx_bytes, tx_bytes, Token("off")>>

\* What wg prints in a tick: wg0 with peerA and peerB; the same after a
\* line of three fields; with a peerA line whose rx field is no integer;
\* with a header whose listen-port field is no integer.
OutputSet ==
    {<<HeaderLine("wg0", PortText),
       PeerLine("peerA", EP_A, <<"0">>, rx, <<"0">>),
       PeerLine("peerB", EP_B, << >>, <<"0">>, <<"0">>)>> : rx \in {<<"0">>, <<"x">>}}
    \cup {<<HeaderLine("wg0", PortText),
            <<Token("peerC"), EP_A, <<"x">>>>,
            PeerLine("peerA", EP_A, <<"0">>, <<"0">>, <<"0">>),
            PeerLine("peerB", EP_B, << >>, <<"0">>, <<"0">>)>>,
          <<HeaderLine("wg0", <<"x">>),
            PeerLine("peerB", EP_B, << >>, <<"0">>, <<"0">>)>>}

\* The row of a peer: a limit of MaxLimit endpoints and a TTL of MaxTtl,
\* with a known policy or with one the enum does not have.
StoredRow(connection_policy) ==
    [max_concurrent |-> PyInt(MaxLimit), connection_policy |-> Some(connection_policy),
     session_ttl |-> PyInt(MaxTtl), grace_seconds |-> PyInt(0)]

\* The tables: peerA of wg0 has no row, a row, or a row with an unknown
\* policy; no other peer has a row.
StoreSet ==
    {[k \in Keys |-> IF k = <<"wg0", "peerA">> THEN a ELSE None] :
        a \in {None, Some(StoredRow(OLD_WINS)), Some(StoredRow("round_robin"))}}

RunInit == DaemonStart /\ store \in StoreSet

\* Where run() can be, and a step that takes it elsewhere.
Positions == {"ready", "collect", "interface", "peers", "raised", "sleep", "returned"}

RunMoves == pc # "returned" /\ pc' \in Positions /\ pc' # pc

\* time.sleep(sleep_time) once the clock of the model has reached its
\* bound: the daemon goes on polling.
SleepAtBound ==
    /\ pc = "sleep"
    /\ now = MaxTime
    /\ pc' = "ready"
    /\ UNCHANGED <<todo, ifacePlan, tickPlans, decisions, runVars,
                   trackerVars, backendVars, repoVars, settingsVars>>

\* run() with iterations that do not fail and no stop signal: the daemon
\* polls for ever, also when the clock of the model has reached its bound.
\* The dumps are those of DumpSet with wg0 alone or with no interface (the
\* peer is there, or it is gone).
LoopNext ==
    \/ LoopEnter
    \/ \E dump \in {d \in DumpSet : Len(d) <= 1} : IterationBegin(dump)
    \/ IterationInterface
    \/ \E settings \in StoredSettings : IterationPeer(settings)
    \/ IterationInterfaceDone
    \/ IterationSync({})
    \/ Sleep
    \/ SleepAtBound

\* What `wg show all dump` reports for wg0 when the interface has two
\* peers: one of them or both, in either order (the order of the peers in
\* the dump is wg's), peerB at an endpoint that peerA also uses at other
\* times.
PeerOrderDumps ==
    LET a == {PeerInfo("peerA", e, 0, 0, 0) : e \in {EP_A, EP_B}}
        b == {PeerInfo("peerB", EP_B, 0, 0, 0)}
    IN  {<< <<"wg0", InterfaceInfo(ListenPort["wg0"], peers)>> >> :
            peers \in {<<x>> : x \in a \cup b}
                       \cup {<<x, y>> : x \in a, y \in b}
                       \cup {<<y, x>> : x \in a, y \in b}}

\* The settings rows of the two peers: either policy, no grace.
PeerSettings == {settings \in StoredSettings : settings.grace_seconds = 0}

\* tracker.prune_peer(interface, peer_id), called between two iterations
\* (the daemon itself never calls it).
PruneBetweenTicks(key) ==
    /\ pc = "sleep"
    /\ PrunePeer(key)

\* The daemon polling an interface with two peers, and prune_peer.
PeersNext ==
    \/ LoopEnter
    \/ \E dump \in PeerOrderDumps : IterationBegin(dump)
    \/ IterationInterface
    \/ \E settings \in PeerSettings : IterationPeer(settings)
    \/ IterationInterfaceDone
    \/ IterationSync({})
    \/ Sleep
    \/ \E key \in {"wg0"} \X Peers : PruneBetweenTicks(key)

RunNext ==
    \/ LoopEnter
    \/ LoopExit
    \/ CollectFails
    \/ \E output \in OutputSet : IterationCollect(output)
    \/ IterationInterface
    \/ IterationPeerStored
    \/ SettingsQueryFails
    \/ UpsertFails
    \/ IterationInterfaceDone
    \/ IterationSync({})
    \/ Catch
    \/ Sleep
    \/ Nap
    \/ Stop

-----------------------------------------------------------------------------
(* Specifications: one per component, the other components idle.           *)

InitTracker == TrackerInit /\ BackendIdle /\ RepoIdle /\ DaemonIdle /\ SettingsIdle

InitBackend == TrackerIdle /\ BackendInit /\ RepoIdle /\ DaemonIdle /\ SettingsIdle

InitRepo == TrackerIdle /\ BackendIdle /\ RepoInit /\ DaemonIdle /\ SettingsIdle

InitDaemon == TrackerInit /\ BackendInit /\ RepoInit /\ DaemonInit /\ SettingsIdle

InitSettings == TrackerIdle /\ BackendIdle /\ RepoIdle /\ DaemonIdle /\ SettingsInit /\ SplitIdle

InitSplit == TrackerIdle /\ BackendIdle /\ RepoIdle /\ DaemonIdle /\ RowIdle /\ SplitInit

InitRun == TrackerInit /\ BackendInit /\ RepoInit /\ RunInit /\ SettingsIdle

SpecPolicy == InitTracker /\ [][PolicyNext]_vars

SpecCounters == InitTracker /\ [][CountersNext]_vars

SpecHandshake == InitTracker /\ [][HandshakeNext]_vars

SpecEndpoints == InitTracker /\ [][EndpointsNext]_vars

SpecBackend == InitBackend /\ [][BackendNext]_vars

SpecRepo == InitRepo /\ [][RepoNext]_vars

\* The daemon: the tracker, the repository and the backend driven by
\* iteration().
SpecDaemon == InitDaemon /\ [][DaemonNext]_vars

\* Every row of RowSet, and one from_row call on it.
SpecSettings == InitSettings /\ [][SettingsNext]_vars

\* The tracker observing one peer under fixed old_wins settings.
SpecOldWins == InitTracker /\ [][OldWinsNext]_vars

\* Every string of EndpointTexts, and one split_endpoint call on it.
SpecSplit == InitSplit /\ [][SplitNext]_vars

\* The backend across restarts of the daemon on one host.
SpecRestart == InitBackend /\ [][RestartNext]_vars

\* The daemon polling an interface whose two peers come in either order.
SpecPeers == InitDaemon /\ [][PeersNext]_vars

\* The daemon polling for ever; run() does not stay at one position.
SpecLoopFair == InitDaemon /\ [][LoopNext]_vars /\ WF_pc(RunMoves)

\* run(): iterations that may raise, and the stop signal.
SpecRun == InitRun /\ [][RunNext]_vars

\* run() does not stay at one position for ever before it has returned:
\* the process is scheduled, and every call it makes returns or raises.
SpecRunFair == InitRun /\ [][RunNext]_vars /\ WF_pc(RunMoves)

-----------------------------------------------------------------------------
(* Claims about the eviction policy (SpecPolicy).                          *)

Tracked == Range(sessions[TrackerKey])

FiniteLimit(settings) == settings.max_concurrent # None

\* The active sessions first seen at `now` or later: inside the grace window
\* even when grace_seconds = 0.
FirstSeenNow(settings) ==
    {s \in Range(ActiveSessions(sessions[TrackerKey], settings, now)) :
        s.first_seen >= now}

\* C2 as stated: with a finite max_concurrent = M and grace_seconds = 0,
\* len(allowed_sessions(now)) <= M at every now, also at the now at which a
\* new endpoint was just observed.
C2_LimitCapAtEveryNow ==
    \A settings \in SettingsSet :
        (FiniteLimit(settings) /\ settings.grace_seconds = 0)
        => Len(AllowedSessions(sessions[TrackerKey], settings, now))
             <= settings.max_concurrent[1]

\* C2 amended: with a finite max_concurrent = M and grace_seconds = 0,
\* len(allowed_sessions(now)) <= M + the number of active sessions first
\* seen at now itself; so it is <= M at every now later than the first_seen
\* of every active session.
C2_LimitCapAfterFirstSeen ==
    \A settings \in SettingsSet :
        (FiniteLimit(settings) /\ settings.grace_seconds = 0)
        => Len(AllowedSessions(sessions[TrackerKey], settings, now))
             <= settings.max_concurrent[1] + Cardinality(FirstSeenNow(settings))

\* The cap bites: more active sessions than the limit, none first seen at
\* now, and exactly M of them allowed.
C2_Witness ==
    \E settings \in SettingsSet :
        /\ FiniteLimit(settings) /\ settings.grace_seconds = 0
        /\ FirstSeenNow(settings) = {}
        /\ Len(ActiveSessions(sessions[TrackerKey], settings, now))
             > settings.max_concurrent[1]
        /\ Len(AllowedSessions(sessions[TrackerKey], settings, now))
             = settings.max_concurrent[1]

\* C3 as stated: every tracked session with first_seen >= now - grace_seconds
\* is in allowed_sessions(now), for every settings value.
C3_GraceAdmitsEveryTracked ==
    \A settings \in SettingsSet : \A s \in Tracked :
        s.first_seen >= now - settings.grace_seconds
        => s \in Range(AllowedSessions(sessions[TrackerKey], settings, now))

\* C3 amended: every tracked session that is active at now (last_seen >=
\* now - ttl_seconds) and has first_seen >= now - grace_seconds is in
\* allowed_sessions(now), regardless of the limit and the policy.
C3_GraceAdmitsEveryActive ==
    \A settings \in SettingsSet : \A s \in Tracked :
        (s.last_seen >= now - settings.ttl_seconds
         /\ s.first_seen >= now - settings.grace_seconds)
        => s \in Range(AllowedSessions(sessions[TrackerKey], settings, now))

\* Grace sessions admitted beyond the limit: more sessions allowed than
\* max_concurrent, one of them a grace session first seen before now.
C3_Witness ==
    \E settings \in SettingsSet :
        /\ FiniteLimit(settings)
        /\ Len(AllowedSessions(sessions[TrackerKey], settings, now))
             > settings.max_concurrent[1]
        /\ \E s \in Tracked :
             /\ s.first_seen < now
             /\ s.first_seen >= now - settings.grace_seconds
             /\ s \in Range(AllowedSessions(sessions[TrackerKey], settings, now))

\* C4: active_sessions(now) returns exactly the tracked sessions of the key
\* with last_seen >= now - ttl_seconds: none older, every one inside.
C4_TtlExpiry ==
    \A settings \in SettingsSet :
        Range(ActiveSessions(sessions[TrackerKey], settings, now))
          = {s \in Tracked : s.last_seen >= now - settings.ttl_seconds}

\* A tracked session past the TTL next to one exactly on the TTL boundary.
C4_Witness ==
    \E settings \in SettingsSet : \E s1, s2 \in Tracked :
        /\ s1.last_seen < now - settings.ttl_seconds
        /\ s2.last_seen = now - settings.ttl_seconds
        /\ Range(ActiveSessions(sessions[TrackerKey], settings, now)) = {s2}

\* What the tracker answers for the key at now under the settings: the
\* active sessions, those of them inside (grace) and outside (stable) the
\* grace window, allowed_sessions(now), and its stable sessions in the
\* order returned (admitted).
Decision(settings) ==
    LET active == ActiveSessions(sessions[TrackerKey], settings, now)
        allowed == AllowedSessions(sessions[TrackerKey], settings, now)
        grace == {s \in Range(active) : s.first_seen >= now - settings.grace_seconds}
    IN  [active |-> active, allowed |-> allowed, grace |-> grace,
         stable |-> Range(active) \ grace,
         admitted |-> SelectSeq(allowed, LAMBDA s : s \in Range(active) \ grace)]

\* allowed lists every grace session, and each of them before every stable
\* session.
GraceFirst(d) ==
    /\ d.grace \subseteq Range(d.allowed)
    /\ \A i, j \in 1..Len(d.allowed) :
          (i < j /\ d.allowed[j] \in d.grace) => d.allowed[i] \in d.grace

MinOf(a, b) == IF a <= b THEN a ELSE b

OneNewWins == {st \in SettingsSet : st.max_concurrent = Some(1) /\ st.policy = NEW_WINS}

\* b was first observed while the older a was tracked and inside the TTL
\* window of the settings.
FirstSeenBeside(a, b, settings) ==
    /\ a.first_seen < b.first_seen
    /\ a.last_seen >= b.first_seen - settings.ttl_seconds

ActiveNow(s, settings) == s.last_seen >= now - settings.ttl_seconds

\* C13 as stated: with max_concurrent = 1 and new_wins, B first observed at
\* t while the older A was active: allowed_sessions(now) contains A and B at
\* every now in [t, t + grace_seconds], and is exactly [B] at every later
\* now at which both are active and A has had no traffic after t.
C13_GraceThenDisplaceAlways ==
    \A settings \in OneNewWins : \A a, b \in Tracked :
        (FirstSeenBeside(a, b, settings) /\ Tracked = {a, b}) =>
            /\ now <= b.first_seen + settings.grace_seconds
                  => {a, b} \subseteq Range(Decision(settings).allowed)
            /\ (/\ now > b.first_seen + settings.grace_seconds
                /\ ActiveNow(a, settings) /\ ActiveNow(b, settings)
                /\ a.last_seen <= b.first_seen)
                  => Decision(settings).allowed = <<b>>

\* C13 amended: with max_concurrent = 1 and new_wins, A and B the only
\* sessions of the key, B first observed at t while the older A was active:
\* at every now in [t, t + grace_seconds] allowed_sessions(now) contains
\* each of A and B that is still active at now, and at every later now at
\* which both are active and A has had no traffic at or after t it is
\* exactly [B].
C13_GraceThenDisplace ==
    \A settings \in OneNewWins : \A a, b \in Tracked :
        (FirstSeenBeside(a, b, settings) /\ Tracked = {a, b}) =>
            /\ now <= b.first_seen + settings.grace_seconds
                  => {s \in {a, b} : ActiveNow(s, settings)}
                        \subseteq Range(Decision(settings).allowed)
            /\ (/\ now > b.first_seen + settings.grace_seconds
                /\ ActiveNow(a, settings) /\ ActiveNow(b, settings)
                /\ a.last_seen < b.first_seen)
                  => Decision(settings).allowed = <<b>>

\* One state, two settings: on the last second of B's grace window both A
\* (stable) and B are allowed; without a grace window the same moment is
\* past it and B alone is allowed.
C13_Witness ==
    \E a, b \in Tracked : \E inside, past \in OneNewWins :
        /\ FirstSeenBeside(a, b, inside) /\ FirstSeenBeside(a, b, past)
        /\ a.last_seen < b.first_seen
        /\ b.first_seen < now
        /\ now = b.first_seen + inside.grace_seconds
        /\ a.first_seen < now - inside.grace_seconds
        /\ Range(Decision(inside).allowed) = {a, b}
        /\ now > b.first_seen + past.grace_seconds
        /\ ActiveNow(a, past) /\ ActiveNow(b, past)
        /\ Decision(past).allowed = <<b>>

\* The settings without a limit: max_concurrent None or 0.
UnlimitedSettings ==
    [max_concurrent : {None, Some(0)},
     policy         : {NEW_WINS, OLD_WINS},
     ttl_seconds    : 1..MaxTtl,
     grace_seconds  : 0..MaxGrace]

\* C22: when max_concurrent is None or 0, allowed_sessions(now) is
\* active_sessions(now), the same sessions in the same order, for every
\* grace_seconds, policy and now.
C22_UnlimitedReturnsActive ==
    \A settings \in UnlimitedSettings :
        AllowedSessions(sessions[TrackerKey], settings, now)
          = ActiveSessions(sessions[TrackerKey], settings, now)

\* A limit of 0 with two active sessions past the grace window: both are
\* returned, where a limit of 1 returns one.
C22_Witness ==
    \E settings \in UnlimitedSettings :
        /\ settings.max_concurrent = Some(0)
        /\ Len(AllowedSessions(sessions[TrackerKey], settings, now)) = 2
        /\ \A s \in Range(AllowedSessions(sessions[TrackerKey], settings, now)) :
               ~InGrace(s, settings, now)
        /\ Len(AllowedSessions(sessions[TrackerKey],
                   [settings EXCEPT !.max_concurrent = Some(1)], now)) = 1

\* C28: with a finite max_concurrent = M, allowed_sessions(now) holds at
\* most M sessions outside the grace window, and as many of them as there
\* are when fewer (the grace sessions take nothing from that quota), so at
\* most M + the number of active grace sessions in all; every allowed
\* session is active and no endpoint is listed twice.
C28_StableWithinLimit ==
    \A settings \in SettingsSet :
        FiniteLimit(settings) =>
            LET d == Decision(settings)
            IN  /\ Len(d.admitted) <= settings.max_concurrent[1]
                /\ Len(d.admitted) = MinOf(settings.max_concurrent[1],
                                           Cardinality(d.stable))
                /\ Len(d.allowed) <= settings.max_concurrent[1] + Cardinality(d.grace)
                /\ Range(d.allowed) \subseteq Range(d.active)
                /\ Cardinality({s.endpoint : s \in Range(d.allowed)}) = Len(d.allowed)

\* A grace session next to a full quota of stable sessions: M stable
\* sessions allowed, and the grace session on top of them.
C28_Witness ==
    \E settings \in SettingsSet :
        /\ FiniteLimit(settings)
        /\ Decision(settings).grace # {}
        /\ Len(Decision(settings).admitted) = settings.max_concurrent[1]
        /\ Len(Decision(settings).allowed)
             = settings.max_concurrent[1] + Cardinality(Decision(settings).grace)

\* The settings of C32: a finite limit under old_wins, any grace, the
\* ttl_seconds the observations are made with.
FiniteOldWins ==
    {st \in SettingsSet : /\ FiniteLimit(st) /\ st.policy = OLD_WINS
                          /\ st.ttl_seconds = OldWinsSettings.ttl_seconds}

\* The step is made with these settings: an observe of the step is given
\* their ttl_seconds (the clock's steps are made with any settings).
StepUnder(settings) ==
    (now' = now /\ call'.op = "observe") => call'.ttl_seconds = settings.ttl_seconds

\* The session s is in the list: same endpoint, same first_seen.
StillIn(s, list) ==
    \E x \in Range(list) : x.endpoint = s.endpoint /\ x.first_seen = s.first_seen

\* No other tracked session of the peer was first seen when s was.
AloneAtFirstSeen(s) ==
    \A o \in Tracked : o.endpoint # s.endpoint => o.first_seen # s.first_seen

\* C32 as stated: under old_wins with fixed settings and a finite limit, a
\* stable session that allowed_sessions returns is returned again after
\* every step (observation, prune or advance of the clock) after which it
\* is still tracked and active.
C32_OldWinsNeverDisplacedAlways ==
    [][\A settings \in FiniteOldWins :
          StepUnder(settings) =>
              \E admitted \in {Decision(settings).admitted},
                 active \in {ActiveSessions(sessions'[TrackerKey], settings, now')},
                 allowed \in {AllowedSessions(sessions'[TrackerKey], settings, now')} :
                  \A s \in Range(admitted) :
                      StillIn(s, active) => StillIn(s, allowed)]_vars

\* C32, amended: the same for a stable allowed session that no other
\* tracked session of the peer shares its first_seen with.
C32_OldWinsNeverDisplaced ==
    [][\A settings \in FiniteOldWins :
          StepUnder(settings) =>
              \E admitted \in {Decision(settings).admitted},
                 active \in {ActiveSessions(sessions'[TrackerKey], settings, now')},
                 allowed \in {AllowedSessions(sessions'[TrackerKey], settings, now')} :
                  \A s \in Range(admitted) :
                      (AloneAtFirstSeen(s) /\ StillIn(s, active)) => StillIn(s, allowed)]_vars

\* Under old_wins with a limit of one, the older of two active stable
\* sessions is allowed and the younger one, seen more recently, is not:
\* the observation that brought the younger one did not displace it.
C32_Witness ==
    \E settings \in FiniteOldWins :
        /\ settings.max_concurrent = Some(1)
        /\ call.op = "observe"
        /\ call.ttl_seconds = settings.ttl_seconds
        /\ \E a \in Range(Decision(settings).admitted) :
           \E b \in Decision(settings).stable \ Range(Decision(settings).admitted) :
              /\ a.first_seen < b.first_seen
              /\ a.last_seen < b.last_seen
              /\ b.endpoint = call.endpoint
              /\ b.last_seen = now

-----------------------------------------------------------------------------
(* Claims about one observe call (SpecCounters, SpecHandshake).  `call`    *)
(* holds the last call; no other action changes the sessions after it.     *)

ObservedValid == call.op = "observe" /\ EndpointAccepted(call.endpoint)

\* The session of the observed endpoint after the call.
Observed == DictGet(sessions[call.key], call.endpoint)[1]

\* C5 as stated: observing an endpoint that is already tracked, with rx and
\* tx equal to the stored counters, leaves its last_seen as it was, whatever
\* now and ttl_seconds are.
C5_IdleNeverRefreshes ==
    (/\ ObservedValid
     /\ call.tracked # None
     /\ call.rx_bytes = call.tracked[1].rx_bytes
     /\ call.tx_bytes = call.tracked[1].tx_bytes)
    => Observed.last_seen = call.tracked[1].last_seen

\* C5 amended: observing an endpoint that is tracked and survives the call's
\* expiry step (stored last_seen >= now - ttl_seconds), with rx and tx
\* equal to the stored counters, leaves its last_seen as it was.
C5_IdlePreservesLastSeen ==
    (/\ ObservedValid
     /\ call.tracked # None
     /\ call.tracked[1].last_seen >= call.now - call.ttl_seconds
     /\ call.rx_bytes = call.tracked[1].rx_bytes
     /\ call.tx_bytes = call.tracked[1].tx_bytes)
    => Observed.last_seen = call.tracked[1].last_seen

\* Silence across a clock advance: the endpoint is observed again later
\* with unchanged counters, and its last_seen is still the earlier time.
C5_Witness ==
    /\ ObservedValid
    /\ call.tracked # None
    /\ call.tracked[1].last_seen >= call.now - call.ttl_seconds
    /\ call.rx_bytes = call.tracked[1].rx_bytes
    /\ call.tx_bytes = call.tracked[1].tx_bytes
    /\ call.tracked[1].last_seen < call.now
    /\ Observed.last_seen = call.tracked[1].last_seen

\* C6: every tracked session has rx_delta >= 0 and tx_delta >= 0, and when
\* an observation reports a counter lower than the stored one, that delta is
\* 0 and the stored counter becomes the new, lower value.
C6_DeltaNonNegative ==
    /\ \A k \in Keys : \A s \in Range(sessions[k]) :
           s.rx_delta >= 0 /\ s.tx_delta >= 0
    /\ (ObservedValid /\ call.tracked # None)
       => /\ call.rx_bytes < call.tracked[1].rx_bytes
             => Observed.rx_delta = 0 /\ Observed.rx_bytes = call.rx_bytes
          /\ call.tx_bytes < call.tracked[1].tx_bytes
             => Observed.tx_delta = 0 /\ Observed.tx_bytes = call.tx_bytes

\* A counter reset on a live session: rx went down while tx went up.
C6_Witness ==
    /\ ObservedValid
    /\ call.existing # None
    /\ call.rx_bytes < call.existing[1].rx_bytes
    /\ call.tx_bytes > call.existing[1].tx_bytes
    /\ Observed.rx_delta = 0
    /\ Observed.rx_bytes = call.rx_bytes
    /\ Observed.tx_delta > 0

\* C7: across observe calls on the same session (one that survives the
\* call's expiry step), last_handshake never decreases; it changes only to a
\* non-zero reported handshake that is strictly later than the stored one or
\* fills an absent one; a handshake of 0, or one not later than the stored
\* one, leaves it unchanged.
C7_HandshakeMonotonic ==
    (ObservedValid /\ call.existing # None)
    => LET before == call.existing[1].last_handshake
           after == Observed.last_handshake
           hs == call.latest_handshake
       IN  /\ before # None => (after # None /\ after[1] >= before[1])
           /\ (hs = 0 \/ (before # None /\ hs <= before[1])) => after = before
           /\ after # before
                => /\ hs # 0
                   /\ after = Some(hs)
                   /\ (before = None \/ hs > before[1])
           /\ (hs # 0 /\ (before = None \/ hs > before[1])) => after = Some(hs)

\* An earlier handshake reported for a session that holds a later one.
C7_Witness ==
    /\ ObservedValid
    /\ call.existing # None
    /\ call.existing[1].last_handshake # None
    /\ call.latest_handshake # 0
    /\ call.latest_handshake < call.existing[1].last_handshake[1]
    /\ Observed.last_handshake = call.existing[1].last_handshake

\* The normalised endpoint is one the claim calls rejected: empty (None, ""
\* or whitespace only) or "(none)" in any letter case.
RejectedEndpoint(endpoint) == endpoint = << >> \/ Lower(endpoint) = NoneLiteral

\* C24: an observe call with a rejected endpoint creates no session and
\* changes no field of a tracked session: the sessions of the key after the
\* call (which the call returns) are those before it that the call's expiry
\* step kept, unchanged and in the same order, and no other key changes.
C24_RejectedObservesNothing ==
    [][(/\ call'.op = "observe"
        /\ RejectedEndpoint(call'.endpoint)
        /\ now' = now)
       => /\ sessions'[call'.key]
               = Expire(sessions[call'.key], call'.ttl_seconds, now)
          /\ \A s \in Range(sessions'[call'.key]) : s \in Range(sessions[call'.key])
          /\ \A k \in Keys \ {call'.key} : sessions'[k] = sessions[k]]_vars

\* "(NONE)" was reported for a peer whose earlier endpoint is still tracked,
\* with the last_seen it had.
C24_Witness ==
    /\ call.op = "observe"
    /\ call.endpoint = EP_NONE
    /\ call.rx_bytes = 1
    /\ Len(sessions[call.key]) = 1
    /\ sessions[call.key][1].last_seen < call.now
    /\ sessions[call.key][1].rx_bytes = 0

\* C26: every tracked session has first_seen <= last_seen; a session that
\* observe created has first_seen = last_seen = now and both deltas 0; and
\* the first_seen of a tracked session does not change while it is tracked
\* (an endpoint gets another first_seen only when its session had expired
\* and the call created a new one).
C26_FirstSeenFixed ==
    /\ [](\A k \in Keys : \A s \in Range(sessions[k]) : s.first_seen <= s.last_seen)
    /\ []((ObservedValid /\ call.existing = None)
            => /\ Observed.first_seen = call.now
               /\ Observed.last_seen = call.now
               /\ Observed.rx_delta = 0
               /\ Observed.tx_delta = 0)
    /\ [][\A k \in Keys : \A s \in Range(sessions[k]) : \A s2 \in Range(sessions'[k]) :
            (s2.endpoint = s.endpoint /\ s2.first_seen # s.first_seen)
            => /\ call'.op = "observe" /\ call'.key = k
               /\ call'.endpoint = s.endpoint
               /\ StaleAt(s, call'.ttl_seconds, now)
               /\ s2.first_seen = now]_vars

\* A session updated by a later observation with traffic: last_seen moved,
\* first_seen is where it was.
C26_Witness ==
    /\ ObservedValid
    /\ call.existing # None
    /\ Observed.first_seen = call.existing[1].first_seen
    /\ Observed.first_seen < Observed.last_seen
    /\ Observed.last_seen = call.now

\* C29: right after observe with a valid endpoint a session of that
\* endpoint is tracked under the key and is in active_sessions at the same
\* now and TTL: the session that survived the call's expiry step (its
\* last_seen was >= now - ttl_seconds), or one created with first_seen =
\* last_seen = now.
C29_ObservedIsActive ==
    ObservedValid =>
        /\ DictGet(sessions[call.key], call.endpoint) # None
        /\ Observed \in Range(ActiveSessions(sessions[call.key],
               PeerLimitSettings(None, NEW_WINS, call.ttl_seconds, DEFAULT_GRACE_SECONDS),
               call.now))
        /\ IF call.existing # None
           THEN /\ call.existing[1].last_seen >= call.now - call.ttl_seconds
                /\ Observed.first_seen = call.existing[1].first_seen
           ELSE Observed.first_seen = call.now /\ Observed.last_seen = call.now

\* A silent endpoint exactly on the TTL boundary: its session survived the
\* expiry step, was not refreshed, and is still active.
C29_Witness ==
    /\ ObservedValid
    /\ call.existing # None
    /\ call.existing[1].last_seen = call.now - call.ttl_seconds
    /\ Observed.last_seen = call.existing[1].last_seen
    /\ now = call.now

-----------------------------------------------------------------------------
(* Claims about the firewall backends (SpecBackend).                       *)

\* C8: a sync call given the same plans as the sync call right before it
\* runs no command at all, with the nftables and with the iptables backend.
C8_SyncIdempotent == repeated => commands = << >>

\* A repeated sync of plans that name both interfaces and hold elements.
C8_Witness ==
    /\ repeated
    /\ Len(lastPlans[1]) = 2
    /\ \E i \in 1..2 : lastPlans[1][i][2].ipv4 # {} /\ lastPlans[1][i][2].ipv6 # {}
    /\ commands = << >>

\* The positions in cmds of the commands with this verb on this set.
ElementCommands(cmds, verb, set_name) ==
    {j \in 1..Len(cmds) : cmds[j].verb = verb /\ cmds[j].name = set_name}

\* What one sync step must have run for one set.
ExactDiff(cmds, set_name, desired, current) ==
    LET adds == ElementCommands(cmds, "add element", set_name)
        dels == ElementCommands(cmds, "delete element", set_name)
    IN  /\ Cardinality(adds) = (IF desired \ current # {} THEN 1 ELSE 0)
        /\ Cardinality(dels) = (IF current \ desired # {} THEN 1 ELSE 0)
        /\ \A j \in adds : cmds[j].arg = FormatElements(desired \ current)
        /\ \A j \in dels : cmds[j].arg = FormatElements(current \ desired)

\* C9: every NftablesBackend.sync step runs, for the v4 and the v6 set of
\* each interface in the plans, one add-element command listing exactly
\* desired - current when that is non-empty, one delete-element command
\* listing exactly current - desired when that is non-empty, and no other
\* element command on that set.
C9_NftExactDiff ==
    [][(backend.kind = "nftables" /\ lastPlans' # None)
       => \A i \in 1..Len(lastPlans'[1]) :
            LET interface == lastPlans'[1][i][1]
                plan == lastPlans'[1][i][2]
            IN  /\ ExactDiff(commands', SetName(interface, "v4"),
                             plan.ipv4, backend.current_v4[interface])
                /\ ExactDiff(commands', SetName(interface, "v6"),
                             plan.ipv6, backend.current_v6[interface])]_vars

\* A sync that both added to and deleted from one set, and left the other
\* set of the interface alone.
C9_Witness ==
    /\ backend.kind = "nftables"
    /\ lastPlans # None
    /\ ElementCommands(commands, "add element", SetName("wg0", "v4")) # {}
    /\ ElementCommands(commands, "delete element", SetName("wg0", "v4")) # {}
    /\ ElementCommands(commands, "add element", SetName("wg0", "v6")) = {}
    /\ ElementCommands(commands, "delete element", SetName("wg0", "v6")) = {}

\* The elements the backend object records as current for the sets of an
\* interface, per set name.
Recorded(interface) ==
    IF backend.kind = "nftables"
    THEN [x \in {"v4", "v6"} |->
            IF x = "v4" THEN backend.current_v4[interface]
            ELSE backend.current_v6[interface]]
    ELSE [x \in {""} |-> backend.current[interface]]

\* C18: after a sync in which an add-element or delete-element command
\* exited non-zero the recorded current set does not hold the failed change:
\* every element the backend records for a set is installed in that set on
\* the host, and a repeated sync of the same plans whose sets still lack an
\* element of the plan runs a command again.
C18_FailedChangeRetried ==
    lastPlans # None =>
        \A interface \in Interfaces : \A x \in DOMAIN Recorded(interface) :
            /\ Recorded(interface)[x] \subseteq kernel.elems[SetName(interface, x)]
            /\ (/\ repeated
                /\ \E i \in 1..Len(lastPlans[1]) :
                      /\ lastPlans[1][i][1] = interface
                      /\ ~((IF x = "v6" THEN lastPlans[1][i][2].ipv6
                            ELSE lastPlans[1][i][2].ipv4)
                           \subseteq kernel.elems[SetName(interface, x)]))
                  => commands # << >>

\* The interfaces a plans dict names, and the plan it holds for one.
PlanInterfaces(plans) == {plans[i][1] : i \in 1..Len(plans)}

PlanOf(plans, interface) ==
    plans[CHOOSE i \in 1..Len(plans) : plans[i][1] = interface][2]

\* The interface whose set, chain or rule a command names ("" for the
\* table commands, which name none).
CommandInterface(cmd) ==
    IF cmd.verb \in {"list table", "add table"} THEN ""
    ELSE IF cmd.verb \in {"iptables -C", "iptables -I"} THEN cmd.arg[2][2]
    ELSE cmd.name[2]

\* C30: after sync(plans) the recorded current sets of every interface in
\* plans equal the plan's sets (v4 and v6 for nftables, ipv4 for iptables);
\* for every interface absent from plans the call leaves the recorded sets
\* as they were and runs no command that names it.
C30_SyncRecordsPlans ==
    /\ [](lastPlans # None =>
            \A interface \in PlanInterfaces(lastPlans[1]) :
                Recorded(interface)
                  = IF backend.kind = "nftables"
                    THEN [x \in {"v4", "v6"} |->
                            IF x = "v4" THEN PlanOf(lastPlans[1], interface).ipv4
                            ELSE PlanOf(lastPlans[1], interface).ipv6]
                    ELSE [x \in {""} |-> PlanOf(lastPlans[1], interface).ipv4])
    /\ [][lastPlans' # None =>
            \A interface \in Interfaces \ PlanInterfaces(lastPlans'[1]) :
                /\ Recorded(interface)' = Recorded(interface)
                /\ \A j \in 1..Len(commands') :
                       CommandInterface(commands'[j]) # interface]_vars

\* A sync whose plans name wg1 only, with commands run for it, while the
\* sets recorded for wg0 by an earlier sync are still recorded.
C30_Witness ==
    /\ lastPlans # None
    /\ PlanInterfaces(lastPlans[1]) = {"wg1"}
    /\ commands # << >>
    /\ \E x \in DOMAIN Recorded("wg0") : Recorded("wg0")[x] # {}
    /\ Recorded("wg1") = [x \in DOMAIN Recorded("wg1") |->
                             IF x = "v6" THEN {} ELSE {ELEM_A}]

-----------------------------------------------------------------------------
(* Claims about the backend after a restart (SpecRestart).                 *)

\* The backend object as __init__ leaves it: nothing initialized, every
\* recorded set empty.
FreshBackend ==
    backend = IF backend.kind = "nftables" THEN NftablesBackend ELSE IptablesBackend

\* The allow-sets of the interface on the host that the backend manages.
Installed(k, interface) ==
    IF backend.kind = "nftables"
    THEN [x \in {"v4", "v6"} |-> k.elems[SetName(interface, x)]]
    ELSE [x \in {""} |-> k.elems[SetName(interface, "")]]

\* The sets the plan asks for, per allow-set of the backend.
Desired(plan) ==
    IF backend.kind = "nftables"
    THEN [x \in {"v4", "v6"} |-> IF x = "v4" THEN plan.ipv4 ELSE plan.ipv6]
    ELSE [x \in {""} |-> plan.ipv4]

\* Every add / delete of elements among the commands returns 0 when the
\* commands are run in this order on host k.
RECURSIVE ElementCommandsSucceed(_, _)
ElementCommandsSucceed(k, cmds) ==
    IF cmds = << >> THEN TRUE
    ELSE LET r == KernelExec(k, Head(cmds), {})
         IN  /\ Head(cmds).verb \in ElementVerbs(backend.kind) => r.rc = 0
             /\ ElementCommandsSucceed(r.kernel, Tail(cmds))

\* The host holds elements of an earlier run of the daemon.
Leftovers(k) == \E n \in SetNames : k.elems[n] # {}

\* C31: the first sync of a restarted daemon (new backend object, the host
\* still holding the elements of the previous run), when no command fails
\* for a reason of the host's own and all its element commands return 0,
\* leaves in the allow-sets of every interface of the plans exactly the
\* plan's elements.
C31_RestartSyncInstallsPlan ==
    [][\A plans \in PlanSet :
          (/\ FreshBackend
           /\ Leftovers(kernel)
           /\ lastPlans = None
           /\ lastPlans' = Some(plans)
           /\ \E m \in {SyncPlans(Machine(backend, kernel), plans, {})} :
                 /\ kernel' = m.kernel
                 /\ commands' = m.commands
                 /\ ElementCommandsSucceed(kernel, m.commands))
              => \A interface \in PlanInterfaces(plans) :
                    Installed(kernel', interface) = Desired(PlanOf(plans, interface))]_vars

-----------------------------------------------------------------------------
(* Claims about the state repository (SpecRepo).                           *)

\* The passed dict a persisted row came from.
PassedOf(r) ==
    [Endpoint |-> r.Endpoint, LastHandshake |-> r.LastHandshake,
     FirstSeen |-> r.FirstSeen, LastSeen |-> r.LastSeen,
     RxBytes |-> r.RxBytes, TxBytes |-> r.TxBytes,
     RxDelta |-> r.RxDelta, TxDelta |-> r.TxDelta, IsAllowed |-> r.IsAllowed]

\* The step that commits the open upsert_sessions call.
Commits == txn # None /\ txn' = None /\ lastUpsert'.outcome = "committed"

\* C10: when upsert_sessions(interface, peer, records) commits, the
\* persisted rows of that (Interface, PeerID) are exactly the passed records
\* (none when records is empty) and the rows of every other (Interface,
\* PeerID) are those from before the call; while the call's transaction is
\* open the committed rows stay those from before the call, and a reader's
\* SELECT between the delete and the commit returns the peer's rows from
\* before the call.
C10_SnapshotReplace ==
    [][/\ Commits =>
            LET t == txn[1]
            IN  /\ {PassedOf(r) : r \in PeerRows(rows', t.interface, t.peer_id)}
                      = Range(t.passed)
                /\ Cardinality(PeerRows(rows', t.interface, t.peer_id)) = Len(t.passed)
                /\ rows' \ PeerRows(rows', t.interface, t.peer_id)
                      = t.before \ PeerRows(t.before, t.interface, t.peer_id)
       /\ txn' # None => rows' = txn'[1].before
       /\ lastRead'.during => lastRead'.rows = lastRead'.before]_vars

\* An upsert of peerA committed that removed a row of peerA without
\* replacing it, while peerB has a row; and a reader ran its SELECT between
\* the delete and the commit while the peer had rows.
C10_Witness ==
    /\ txn = None
    /\ lastUpsert.outcome = "committed"
    /\ lastUpsert.peer_id = "peerA"
    /\ lastUpsert.gone # {}
    /\ PeerRows(rows, "wg0", "peerB") # {}
    /\ lastRead.during
    /\ lastRead.before # {}

-----------------------------------------------------------------------------
(* Claims about the daemon iteration (SpecDaemon).                         *)

\* iteration() has processed every interface and is about to call sync.
ReachesSync == pc = "interface" /\ todo = << >>

\* The (ip, port) elements of the sessions that allowed_sessions returned
\* for a peer of the interface in this iteration.
AllowedElements(interface) ==
    UNION {{SplitEndpoint(d.allowed[i])[1] : i \in 1..Len(d.allowed)} :
              d \in {x \in decisions : x.interface = interface}}

\* C1: in every iteration that reaches backend.sync, each (ip, port) in the
\* ipv4 or ipv6 set of an interface's plan is the endpoint of a session that
\* allowed_sessions returned for a peer of that interface in this tick (an
\* active session that was denied is not in the plan).
C1_PlanHoldsOnlyAllowed ==
    ReachesSync =>
        \A i \in 1..Len(tickPlans) :
            tickPlans[i][2].ipv4 \cup tickPlans[i][2].ipv6
                \subseteq AllowedElements(tickPlans[i][1])

\* C20: in each iteration, for every peer of the dump, the records passed
\* to upsert_sessions are exactly the peer's active sessions, one record per
\* active endpoint, and a record's IsAllowed is true exactly when its
\* endpoint is in allowed_sessions computed for the same now.
C20_RecordsAreActiveSessions ==
    \A d \in decisions :
        /\ Len(d.passed) = Len(d.active)
        /\ \A i \in 1..Len(d.passed) :
              /\ d.passed[i].Endpoint = d.active[i]
              /\ d.passed[i].IsAllowed <=> d.active[i] \in Range(d.allowed)
        /\ pc = "peers" /\ lastUpsert.peer_id = d.peer_id
              /\ lastUpsert.interface = d.interface
              => {<<r.Endpoint, r.IsAllowed>> :
                      r \in PeerRows(rows, d.interface, d.peer_id)}
                 = {<<x.Endpoint, x.IsAllowed>> : x \in Range(d.passed)}

\* A peer with two active endpoints of which one is allowed: two records
\* were passed, one of them with IsAllowed false.
C20_Witness ==
    \E d \in decisions :
        /\ Len(d.active) = 2
        /\ Len(d.allowed) = 1
        /\ Len(d.passed) = 2
        /\ \E i, j \in 1..2 : d.passed[i].IsAllowed /\ ~d.passed[j].IsAllowed

\* C21: backend.sync is called only at the end of iteration(), when every
\* interface and every peer of the dump has left the loop, and once per
\* iteration; a peer leaves the loop only with its observe, its decision
\* and its upsert_sessions done (the tracker holds the observation, the
\* decision is taken and the rows of the peer are the records passed).
C21_SyncAfterAllPeers ==
    [][/\ backendVars' # backendVars
            => pc = "interface" /\ todo = << >> /\ pc' = "sleep"
       /\ (pc # "sleep" /\ pc' = "sleep")
            => pc = "interface" /\ todo = << >> /\ lastPlans' = Some(tickPlans)
       /\ (pc' = "interface" /\ pc \notin {"interface", "peers"}) => pc = "collect"
       /\ (todo' # todo /\ pc # "collect")
            => /\ pc = "peers"
               /\ IF Head(todo)[2].peers = << >>
                  THEN todo' = Tail(todo)
                  ELSE /\ todo' = [todo EXCEPT ![1][2].peers = Tail(@)]
                       /\ call'.op = "observe"
                       /\ call'.key = CurrentKey
                       /\ call'.now = now
                       /\ lastUpsert'.outcome = "committed"
                       /\ \E d \in decisions' :
                             /\ <<d.interface, d.peer_id>> = CurrentKey
                             /\ {<<r.Endpoint, r.IsAllowed>> :
                                    r \in PeerRows(rows', d.interface, d.peer_id)}
                                = {<<x.Endpoint, x.IsAllowed>> : x \in Range(d.passed)}]_vars

\* An iteration over two interfaces has ended with its one sync: both
\* peers were decided, both plans were handed over, commands were run.
C21_Witness ==
    /\ pc = "sleep"
    /\ lastPlans = Some(tickPlans)
    /\ Len(tickPlans) = 2
    /\ Cardinality({<<d.interface, d.peer_id>> : d \in decisions}) = 2
    /\ commands # << >>

\* The tracker holds a session of the endpoint under the key whose
\* last_seen is older than now - ttl_seconds (every row of StoredSettings
\* has ttl_seconds = MaxTtl).
StaleTracked(k, e) ==
    \E s \in Range(sessions[k]) : s.endpoint = e /\ s.last_seen < now - MaxTtl

\* C23: a tracked session whose last_seen is older than now - ttl_seconds
\* is eventually removed from the tracker, whether or not its peer is still
\* in the dump.
C23_StaleEventuallyRemoved ==
    \A k \in Keys : \A e \in {EP_A, EP_B} :
        StaleTracked(k, e) ~> ~StaleTracked(k, e)

-----------------------------------------------------------------------------
(* Claims about the peers of one tick (SpecPeers).                         *)

\* The tracker's maps, the table and the plan of the interface in the loop.
LoopState == [sessions |-> sessions, rows |-> rows, plan |-> ifacePlan[1]]

\* C25: a step changes the session map of a key only by an observe or a
\* prune_peer call for that very key (the maps of all other keys are left
\* as they were); the body of the peer loop does to the tracker, the table
\* and the plan what PeerStep says; and when two peers of the interface are
\* still to be processed, processing them in the dump's order or in the
\* opposite order, each with its own settings, gives the same tracker
\* state, the same rows and the same plan.
C25_PeersIndependent ==
    /\ [][\A k \in Keys :
            sessions'[k] # sessions[k]
                => call'.op \in {"observe", "prune_peer"} /\ call'.key = k]_vars
    /\ [][(pc = "peers" /\ todo' # todo /\ Head(todo)[2].peers # << >>)
            => \E settings \in PeerSettings :
                  [sessions |-> sessions', rows |-> rows', plan |-> ifacePlan'[1]]
                      = PeerStep(LoopState, Head(todo)[1], Head(Head(todo)[2].peers),
                                 settings, now)]_vars
    /\ [](pc = "peers" /\ Len(Head(todo)[2].peers) = 2
            => \A sa \in PeerSettings, sb \in PeerSettings :
                  \E i \in {Head(todo)[1]},
                     a \in {Head(todo)[2].peers[1]}, b \in {Head(todo)[2].peers[2]} :
                      PeerStep(PeerStep(LoopState, i, a, sa, now), i, b, sb, now)
                          = PeerStep(PeerStep(LoopState, i, b, sb, now), i, a, sa, now))

\* Both peers of a tick were processed, peerB before peerA, while the
\* tracker held sessions of both, and peerB was pruned after the tick:
\* the two sessions of peerA and the rows of the tick are still there.
C25_Witness ==
    /\ pc = "sleep"
    /\ call = [op |-> "prune_peer", key |-> <<"wg0", "peerB">>]
    /\ lastUpsert.outcome = "committed"
    /\ lastUpsert.peer_id = "peerA"
    /\ Cardinality({<<d.interface, d.peer_id>> : d \in decisions}) = 2
    /\ Len(sessions[<<"wg0", "peerA">>]) = 2
    /\ sessions[<<"wg0", "peerB">>] = << >>
    /\ Cardinality(rows) >= 3
    /\ Cardinality(tickPlans[1][2].ipv4) = 2

-----------------------------------------------------------------------------
(* Claims about PeerLimitSettings.from_row (SpecSettings).                 *)

\* The value of a column as a number of halves, for comparisons.
Halves(x) == IF x.type = "float" THEN x.v ELSE 2 * x.v

\* The column holds a number (or, for max_concurrent, the text of one)
\* below n.
NumberBelow(x, n) ==
    \/ IsIntOrFloat(x) /\ Halves(x) < 2 * n
    \/ x.type = "str" /\ ParseInt(x.text) # None /\ ParseInt(x.text)[1] < n

NoColumns ==
    [max_concurrent |-> PyNone, connection_policy |-> None,
     session_ttl |-> PyNone, grace_seconds |-> PyNone]

\* C14: from_row returns max_concurrent None, new_wins, 180 and 5 for
\* absent columns; a max_concurrent <= 0 becomes None; a session_ttl < 1
\* becomes 1 and a grace_seconds < 0 becomes 0; every settings value
\* produced has ttl_seconds >= 1, grace_seconds >= 0 and max_concurrent
\* None or >= 1.
C14_FromRowNormalises ==
    (built # NotBuilt /\ ~built.raised) =>
        /\ row = NoColumns
              => built.value[1] = PeerLimitSettings(PyNone, NEW_WINS,
                     DEFAULT_TTL_SECONDS, DEFAULT_GRACE_SECONDS)
        /\ NumberBelow(row.max_concurrent, 1)
              => built.value[1].max_concurrent = PyNone
        /\ (IsIntOrFloat(row.session_ttl) /\ NumberBelow(row.session_ttl, 1))
              => built.value[1].ttl_seconds = 1
        /\ (IsIntOrFloat(row.grace_seconds) /\ NumberBelow(row.grace_seconds, 0))
              => built.value[1].grace_seconds = 0
        /\ built.value[1].ttl_seconds >= 1
        /\ built.value[1].grace_seconds >= 0
        /\ \/ built.value[1].max_concurrent = PyNone
           \/ Halves(built.value[1].max_concurrent) >= 2

-----------------------------------------------------------------------------
(* Claims about split_endpoint (SpecSplit).                                *)

\* The plan of an interface whose one active session has this endpoint.
PlanOfEndpoint(endpoint) ==
    AddToPlan(FirewallSyncPlan({}, {}, ListenPort["wg0"]), <<[endpoint |-> endpoint]>>)

\* C27: split_endpoint returns an (ip, port) only with port > 0 (a port
\* part that is 0, negative, empty or no integer gives None), so the plan
\* built from an endpoint holds no element with port <= 0.
C27_PortMustBePositive ==
    split.called =>
        /\ split.value # None => split.value[1][2] > 0
        /\ \A e \in PlanOfEndpoint(endpointArg).ipv4 \cup PlanOfEndpoint(endpointArg).ipv6 : e[2] > 0

-----------------------------------------------------------------------------
(* Claims about run() (SpecRun, SpecRunFair).                              *)

InIteration == pc \in {"collect", "interface", "peers"}

\* C15: an exception raised inside iteration() never terminates run(): it
\* is caught and the loop goes to its sleep; run() returns only from the
\* test of the loop with the running flag cleared; and while the flag stays
\* set another iteration is started after the sleep.
C15_ExceptionNeverEndsRun ==
    /\ [][/\ pc = "raised" => pc' \in {"raised", "sleep"}
          /\ (pc # "returned" /\ pc' = "returned") => (pc = "ready" /\ ~running)
          /\ pc = "sleep" => pc' \in {"sleep", "ready"}
          /\ (pc = "ready" /\ running /\ pc' # "ready") => pc' = "collect"]_vars
    /\ (pc = "raised") ~> (pc = "collect" \/ ~running)

\* An iteration was started, with the flag still set, after the one before
\* it was ended by an exception of the database.
C15_Witness ==
    /\ pc = "collect"
    /\ running
    /\ failure = Failure("upsert_sessions", "DBAPIError")

\* C16: once the running flag is false the iteration in progress is not
\* aborted (it reaches the sleep only through backend.sync or through an
\* exception of its own), no further iteration is started, run() eventually
\* returns, and returning runs no firewall command: the backend and the
\* host's rules and sets stay as the last sync left them.
C16_StopFinishesIteration ==
    /\ [][/\ (~running /\ InIteration /\ pc' # pc)
                => \/ pc' \in {"interface", "peers", "raised"}
                   \/ /\ pc = "interface" /\ todo = << >>
                      /\ pc' = "sleep"
                      /\ lastPlans' = Some(tickPlans)
          /\ (pc' = "returned" /\ pc # "returned") => (pc = "ready" /\ ~running)
          /\ (~running /\ ~InIteration) => pc' # "collect"
          /\ pc' = "returned" => UNCHANGED <<backend, kernel, commands, lastPlans>>]_vars
    /\ (~running) ~> (pc = "returned")

\* run() has returned after a stop signal, and the element the last sync
\* installed for peerA is still in the host's set.
C16_Witness ==
    /\ pc = "returned"
    /\ ~running
    /\ lastPlans # None
    /\ ELEM_A \in kernel.elems[SetName("wg0", IF backend.kind = "nftables" THEN "v4" ELSE "")]

\* The row holds a connection_policy that is no value of the enum.
UnknownPolicy(stored) ==
    /\ stored # None
    /\ stored[1].connection_policy # None
    /\ stored[1].connection_policy[1] \notin {NEW_WINS, OLD_WINS}

DatabaseFailed == failure # None /\ failure[1].error = "DBAPIError"

\* C17: when the row of the peer at hand holds an unrecognised
\* connection_policy, the step of the peer loop (unless the database
\* fails) observes the peer with the default settings, persists it and
\* goes on with the remaining peers, so that the iteration reaches sync.
C17_UnknownPolicyIsDefault ==
    [][(/\ pc = "peers"
        /\ Head(todo)[2].peers # << >>
        /\ UnknownPolicy(store[CurrentKey])
        /\ <<pc, todo>>' # <<pc, todo>>
        /\ ~DatabaseFailed')
       => /\ pc' = "peers"
          /\ todo' = [todo EXCEPT ![1][2].peers = Tail(@)]
          /\ sessions' = [sessions EXCEPT ![CurrentKey] =
                 ObserveSessions(@, Some(Head(Head(todo)[2].peers).endpoint),
                     Head(Head(todo)[2].peers).latest_handshake,
                     Head(Head(todo)[2].peers).rx_bytes,
                     Head(Head(todo)[2].peers).tx_bytes, DefaultSettings, now)]
          /\ lastUpsert'.outcome = "committed"
          /\ lastUpsert'.peer_id = CurrentKey[2]]_vars

\* int() raises on a numeric field of the line.
Malformed(line) ==
    \/ Len(line) = 5 /\ IntOrZero(line[4]) = None
    \/ Len(line) >= 8 /\ \E i \in 5..7 : IntOrZero(line[i]) = None

WithoutMalformed(lines) == SelectSeq(lines, LAMBDA line : ~Malformed(line))

\* C19: collect() drops a malformed line of the dump and parses the others:
\* whenever wg has printed its dump, collect() returns what the lines
\* without the malformed ones give, and the iteration goes on to its loop.
C19_MalformedLineDropped ==
    [][(pc = "collect" /\ pc' # "collect" /\ stdout' # None)
       => /\ pc' = "interface"
          /\ todo' = Collect(WithoutMalformed(stdout'[1])).value[1]]_vars


=============================================================================
